---------------------------- MODULE Spec2Model ----------------------------
(***************************************************************************)
(* RAM Eating Pet Simulator: the memory manager (src/system/memory.rs),    *)
(* the pet and its metabolism (src/pet/mod.rs, src/pet/metabolism.rs), the *)
(* game (src/game.rs) and the event loop that drives it (src/main.rs).     *)
(*                                                                         *)
(* Units.  Memory is counted in MB, as in the source.  The f32 quantities  *)
(* are kept in fixed point: hunger and happiness in tenths of a point      *)
(* (100.0 is 1000), time in tenths of a second (1.0 s is 10), rates in     *)
(* tenths (1.0 is 10).  Every constant the source multiplies or compares   *)
(* with is a multiple of these units, so the arithmetic below is the       *)
(* source's arithmetic without f32 rounding.                               *)
(***************************************************************************)
EXTENDS Integers, Sequences, FiniteSets, TLC

VARIABLES
    blocks,            \* MemoryManager.allocated_blocks: the pool, one entry per 1 MB block
    min_free_ram,      \* MemoryManager.min_free_ram
    call,              \* the last MemoryManager call and what it returned
    host_free,         \* free RAM of the host, in MB, as a sample taken now would read it
    pet,               \* Game.pet; in SpecPet a Pet on its own
    metabolism,        \* in SpecMet a Metabolism on its own; NoMetabolism elsewhere
    system,            \* in SpecMon the host readings a SystemMonitor holds; NoSystem elsewhere
    safe,              \* in SpecSafe the limits of a SafeAllocator; NoSafe elsewhere
    monitor_free,      \* free RAM as last sampled by Game.system_monitor
    show_help,         \* Game.show_help
    stats,             \* Game.stats
    last_warning,      \* the static LAST_WARNING of check_ram_levels
    save_file,         \* contents of the save file, NoSave when there is none
    saves,             \* how many times this session has written the save file
    now,               \* the monotonic clock (Instant::now), tenths of a second
    game_last_update,  \* Game.last_update
    loop_last_update,  \* run_game's local last_update
    pc,                \* where run_game is
    last               \* the last Game operation and its outcome

memVars  == <<blocks, min_free_ram, call, host_free>>
gameVars == <<pet, metabolism, system, safe, monitor_free, show_help, stats, last_warning, save_file, saves,
              now, game_last_update, loop_last_update, pc, last>>
vars     == <<blocks, min_free_ram, call, host_free, pet, metabolism, system, safe, monitor_free, show_help,
              stats, last_warning, save_file, saves, now, game_last_update,
              loop_last_update, pc, last>>

Min(a, b) == IF a < b THEN a ELSE b
Max(a, b) == IF a > b THEN a ELSE b

(***************************************************************************)
(* Bounds of the model.                                                    *)
(***************************************************************************)
MaxAllocMb == 2        \* largest amount passed to a MemoryManager call in SpecMem
MaxFreeMb  == 4        \* largest host free RAM sampled in SpecMem
MaxPoolMb  == 3        \* SpecMem stops growing the pool beyond this
MaxTime    == 350      \* the clock stops here (35 s)
MaxSizeMb  == 200      \* no feed is requested that would take the pet beyond this
MaxSaves   == 1        \* save_game calls that write the file in one session

(***************************************************************************)
(* src/system/memory.rs                                                    *)
(***************************************************************************)

\* A block as allocate_block returns it: vec![0u8; 1_048_576], zero-filled and
\* not written to.  `touched` records whether touch_memory has written its
\* stride-4096 pattern into the block, `pattern` the byte it wrote.
ZeroBlock == [touched |-> FALSE, pattern |-> 0]

\* allocate_block() -> Result<Box<..>>.  As written it returns Ok on every path
\* (the global allocator aborts the process instead of returning an error).
\* `refused` is the outcome the Err arm of allocate is written for.
allocate_block(refused) ==
    IF refused THEN [ok |-> FALSE, block |-> ZeroBlock]
               ELSE [ok |-> TRUE,  block |-> ZeroBlock]

\* Vec::pop, n times: popping an empty Vec returns None and changes nothing,
\* so n pops leave the first max(len - n, 0) blocks.
PopN(bs, n) == SubSeq(bs, 1, Max(Len(bs) - n, 0))

NoRefusal == 0 - 1

\* The blocks the loop has pushed when it stops: allocate_block is called for
\* i = 0, 1, ... and each Ok block is pushed, until i = amount_mb or the call
\* for i = refuse_at returns Err.
Pushed(bs, amount_mb, refuse_at) ==
    LET stop == IF refuse_at \in 0..(amount_mb - 1) THEN refuse_at ELSE amount_mb
    IN  bs \o [k \in 1..stop |-> allocate_block(FALSE).block]

\* AllocateLoop without the rollback of its Err arm.
AllocateLoop_NoRollback(bs, amount_mb, refuse_at) ==
    IF refuse_at \in 0..(amount_mb - 1) /\ ~allocate_block(TRUE).ok
    THEN [ok |-> FALSE, err |-> "AllocationFailed",
          blocks |-> Pushed(bs, amount_mb, refuse_at)]
    ELSE [ok |-> TRUE, err |-> "none", blocks |-> Pushed(bs, amount_mb, refuse_at)]

\* The loop `for i in 0..amount_mb` of allocate.  refuse_at is the index i of the
\* first allocate_block call that returns Err (NoRefusal: none does); the Err arm
\* pops i times and returns Err.
AllocateLoop(bs, amount_mb, refuse_at) ==
    IF refuse_at \in 0..(amount_mb - 1) /\ ~allocate_block(TRUE).ok
    THEN [ok |-> FALSE, err |-> "AllocationFailed",
          blocks |-> PopN(Pushed(bs, amount_mb, refuse_at), refuse_at)]
    ELSE [ok |-> TRUE, err |-> "none", blocks |-> Pushed(bs, amount_mb, refuse_at)]

\* allocate with the pre-check off by one (<= for <).
allocate_OffByOne(bs, min_free, amount_mb, free_ram, refuse_at) ==
    IF free_ram <= amount_mb + min_free
    THEN [ok |-> FALSE, err |-> "InsufficientMemory", blocks |-> bs]
    ELSE AllocateLoop(bs, amount_mb, refuse_at)

\* MemoryManager::allocate.  free_ram is the reading of the SystemMonitor the
\* call constructs (SystemMonitor::new refreshes, so it is the host's value now).
allocate(bs, min_free, amount_mb, free_ram, refuse_at) ==
    IF free_ram < amount_mb + min_free
    THEN [ok |-> FALSE, err |-> "InsufficientMemory", blocks |-> bs]
    ELSE AllocateLoop(bs, amount_mb, refuse_at)

\* release that pops amount_mb - 1 blocks.
release_OffByOne(bs, amount_mb) ==
    LET to_release == Min(amount_mb, Len(bs))
    IN  [ok |-> TRUE, blocks |-> PopN(bs, Max(to_release - 1, 0))]

\* MemoryManager::release: always Ok(()).
release(bs, amount_mb) ==
    LET to_release == Min(amount_mb, Len(bs))
    IN  [ok |-> TRUE, blocks |-> PopN(bs, to_release)]

\* clear that leaves the oldest block in the pool.
clear_LeavesOne(bs) == SubSeq(bs, 1, Min(Len(bs), 1))

\* MemoryManager::clear
clear(bs) == <<>>

\* MemoryManager::get_allocated_mb
get_allocated_mb(bs) == Len(bs)

\* MemoryManager::touch_memory: block i gets the pattern i % 256 (i from 0).
touch_memory(bs) ==
    [i \in 1..Len(bs) |-> [touched |-> TRUE, pattern |-> (i - 1) % 256]]

\* digest that returns the amount asked for instead of the amount popped.
digest_ReturnsRequest(bs, amount_mb) ==
    LET current_size == Len(bs)
        to_digest    == Min(amount_mb, current_size)
    IN  IF current_size = 0
        THEN [ok |-> TRUE, ret |-> 0, blocks |-> bs]
        ELSE [ok |-> TRUE, ret |-> amount_mb, blocks |-> PopN(bs, to_digest)]

\* MemoryManager::digest: Ok(number of blocks popped).
digest(bs, amount_mb) ==
    LET current_size == Len(bs)
        to_digest    == Min(amount_mb, current_size)
    IN  IF current_size = 0
        THEN [ok |-> TRUE, ret |-> 0, blocks |-> bs]
        ELSE [ok |-> TRUE, ret |-> to_digest, blocks |-> PopN(bs, to_digest)]

\* impl Drop for MemoryManager: clear().  The Vec and its boxes are freed with it.
drop_manager(bs) == clear(bs)


(***************************************************************************)
(* src/pet/metabolism.rs                                                   *)
(***************************************************************************)

\* Metabolism::new(base_rate); rates in tenths, the timer in tenths of a second.
Metabolism_new(base_rate) ==
    [base_rate |-> base_rate, modifier |-> 10, digestion_timer |-> 0]

\* calculate_size_modifier with a dip in the third tier.
calculate_size_modifier_Dip(size_mb) ==
    IF size_mb <= 100 THEN 5
    ELSE IF size_mb <= 300 THEN 8
    ELSE IF size_mb <= 600 THEN 7
    ELSE IF size_mb <= 1000 THEN 12
    ELSE IF size_mb <= 1500 THEN 15
    ELSE 20

\* Metabolism::calculate_size_modifier, in tenths.
calculate_size_modifier(size_mb) ==
    IF size_mb <= 100 THEN 5
    ELSE IF size_mb <= 300 THEN 8
    ELSE IF size_mb <= 600 THEN 10
    ELSE IF size_mb <= 1000 THEN 12
    ELSE IF size_mb <= 1500 THEN 15
    ELSE 20

\* process without the cap at half the current size.
process_NoCap(m, current_size, delta_time) ==
    IF current_size < 10 THEN [metabolism |-> m, ret |-> 0]
    ELSE LET timer          == m.digestion_timer + delta_time
             size_modifier  == calculate_size_modifier(current_size)
             effective_rate == m.base_rate * m.modifier * size_modifier
             product        == effective_rate * timer
             to_digest      == IF product < 0 THEN 0 ELSE product \div 10000
         IN  IF to_digest > 0
             THEN [metabolism |-> [m EXCEPT !.digestion_timer = timer % 10],
                   ret        |-> to_digest]
             ELSE [metabolism |-> [m EXCEPT !.digestion_timer = timer],
                   ret        |-> 0]

\* process with the floor at 9 MB instead of 10.
process_FloorAt9(m, current_size, delta_time) ==
    IF current_size < 9 THEN [metabolism |-> m, ret |-> 0]
    ELSE LET timer          == m.digestion_timer + delta_time
             size_modifier  == calculate_size_modifier(current_size)
             effective_rate == m.base_rate * m.modifier * size_modifier
             product        == effective_rate * timer
             to_digest      == IF product < 0 THEN 0 ELSE product \div 10000
         IN  IF to_digest > 0
             THEN [metabolism |-> [m EXCEPT !.digestion_timer = timer % 10],
                   ret        |-> Min(to_digest, current_size \div 2)]
             ELSE [metabolism |-> [m EXCEPT !.digestion_timer = timer],
                   ret        |-> 0]

\* process that does not reset the timer when it digests.
process_KeepsTimer(m, current_size, delta_time) ==
    IF current_size < 10 THEN [metabolism |-> m, ret |-> 0]
    ELSE LET timer          == m.digestion_timer + delta_time
             size_modifier  == calculate_size_modifier(current_size)
             effective_rate == m.base_rate * m.modifier * size_modifier
             product        == effective_rate * timer
             to_digest      == IF product < 0 THEN 0 ELSE product \div 10000
         IN  IF to_digest > 0
             THEN [metabolism |-> [m EXCEPT !.digestion_timer = timer],
                   ret        |-> Min(to_digest, current_size \div 2)]
             ELSE [metabolism |-> [m EXCEPT !.digestion_timer = timer],
                   ret        |-> 0]

\* process that caps the amount at the whole current size, not at half of it.
process_CapWhole(m, current_size, delta_time) ==
    IF current_size < 10 THEN [metabolism |-> m, ret |-> 0]
    ELSE LET timer          == m.digestion_timer + delta_time
             size_modifier  == calculate_size_modifier(current_size)
             effective_rate == m.base_rate * m.modifier * size_modifier
             product        == effective_rate * timer
             to_digest      == IF product < 0 THEN 0 ELSE product \div 10000
         IN  IF to_digest > 0
             THEN [metabolism |-> [m EXCEPT !.digestion_timer = timer % 10],
                   ret        |-> Min(to_digest, current_size)]
             ELSE [metabolism |-> [m EXCEPT !.digestion_timer = timer],
                   ret        |-> 0]

\* Metabolism::process: the new metabolism and the MB to digest.
\* effective_rate * digestion_timer is (b/10)(m/10)(s/10)(t/10); `as usize`
\* truncates it and turns a negative product into 0.
process(m, current_size, delta_time) ==
    IF current_size < 10 THEN [metabolism |-> m, ret |-> 0]
    ELSE LET timer          == m.digestion_timer + delta_time
             size_modifier  == calculate_size_modifier(current_size)
             effective_rate == m.base_rate * m.modifier * size_modifier
             product        == effective_rate * timer
             to_digest      == IF product < 0 THEN 0 ELSE product \div 10000
         IN  IF to_digest > 0
             THEN [metabolism |-> [m EXCEPT !.digestion_timer = timer % 10],
                   ret        |-> Min(to_digest, current_size \div 2)]
             ELSE [metabolism |-> [m EXCEPT !.digestion_timer = timer],
                   ret        |-> 0]

\* Metabolism::boost(multiplier), multiplier in tenths: capped above only.
boost(m, multiplier) ==
    [m EXCEPT !.modifier = Min((m.modifier * multiplier) \div 10, 30)]

\* Metabolism::slow(divisor), divisor in tenths: floored below only.
slow(m, divisor) ==
    [m EXCEPT !.modifier = Max((m.modifier * 10) \div divisor, 1)]

\* Metabolism::reset
reset(m) == [m EXCEPT !.modifier = 10, !.digestion_timer = 0]

\* Metabolism::get_rate, in thousandths of a MB per second.
get_rate(m, size_mb) == m.base_rate * m.modifier * calculate_size_modifier(size_mb)

(***************************************************************************)
(* src/config.rs: Config::default()                                        *)
(***************************************************************************)
StartingSizeMb     == 50      \* pet.starting_size_mb
MetabolismRate     == 10      \* pet.metabolism_rate, 1.0
MinFreeRamMb       == 1024    \* system.min_free_ram_mb
WarningThresholdMb == 2048    \* system.warning_threshold_mb

(***************************************************************************)
(* src/pet/mod.rs                                                          *)
(***************************************************************************)

\* calculate_mood that looks at low happiness before it looks at hunger.
calculate_mood_SadFirst(p) ==
    IF ~p.alive THEN "Dead"
    ELSE IF p.happiness < 200 THEN "Sad"
    ELSE IF p.hunger > 900 THEN "Starving"
    ELSE IF p.hunger > 700 THEN "Hungry"
    ELSE IF p.happiness > 800 THEN "Excited"
    ELSE IF p.hunger < 300 /\ p.happiness > 600 THEN "Happy"
    ELSE "Content"

\* Pet::calculate_mood
calculate_mood(p) ==
    IF ~p.alive THEN "Dead"
    ELSE IF p.hunger > 900 THEN "Starving"
    ELSE IF p.hunger > 700 THEN "Hungry"
    ELSE IF p.happiness < 200 THEN "Sad"
    ELSE IF p.happiness > 800 THEN "Excited"
    ELSE IF p.hunger < 300 /\ p.happiness > 600 THEN "Happy"
    ELSE "Content"

\* Pet::update_state: the tier of size_mb.
SizeTier(size_mb) ==
    IF size_mb <= 50 THEN "Baby"
    ELSE IF size_mb <= 150 THEN "Child"
    ELSE IF size_mb <= 300 THEN "Teen"
    ELSE IF size_mb <= 500 THEN "Adult"
    ELSE IF size_mb <= 1000 THEN "Chubby"
    ELSE IF size_mb <= 1500 THEN "Fat"
    ELSE IF size_mb <= 2000 THEN "Huge"
    ELSE "Gigantic"

update_state(p) == [p EXCEPT !.state = SizeTier(p.size_mb)]

\* Pet::new.  The name, the personality and the birth time do not enter any
\* computation below except the favourite food size (see FavoriteFoodSizes).
Pet_new ==
    [size_mb    |-> StartingSizeMb,
     state      |-> "Baby",
     metabolism |-> Metabolism_new(MetabolismRate),
     mood       |-> "Happy",
     hunger     |-> 300,
     happiness  |-> 800,
     alive      |-> TRUE]

\* eat that takes 1 point of hunger per MB instead of 2.
eat_HalfHunger(p, amount_mb) ==
    IF ~p.alive THEN p
    ELSE LET p1 == [p EXCEPT !.size_mb   = p.size_mb + amount_mb,
                             !.hunger    = Max(p.hunger - amount_mb * 10, 0),
                             !.happiness = Min(p.happiness + amount_mb * 5, 1000)]
             p2 == update_state(p1)
         IN  [p2 EXCEPT !.mood = calculate_mood(p2)]

\* Pet::eat
eat(p, amount_mb) ==
    IF ~p.alive THEN p
    ELSE LET p1 == [p EXCEPT !.size_mb   = p.size_mb + amount_mb,
                             !.hunger    = Max(p.hunger - amount_mb * 20, 0),
                             !.happiness = Min(p.happiness + amount_mb * 5, 1000)]
             p2 == update_state(p1)
         IN  [p2 EXCEPT !.mood = calculate_mood(p2)]

\* metabolize that leaves the pet alive at hunger 100.
metabolize_NoDeath(p, delta_time) ==
    IF ~p.alive THEN p
    ELSE LET r        == process(p.metabolism, p.size_mb, delta_time)
             digested == r.ret
             size1    == IF digested > 0 THEN Max(p.size_mb - digested, 0) ELSE p.size_mb
             hunger1  == Min(p.hunger + delta_time * 2, 1000)
             happy1   == IF hunger1 > 700 THEN Max(p.happiness - delta_time * 3, 0)
                                          ELSE p.happiness
         IN  [p EXCEPT !.metabolism = r.metabolism,
                       !.size_mb    = size1,
                       !.hunger     = hunger1,
                       !.happiness  = happy1]

\* metabolize that tests the hunger it found, not the hunger it has just
\* raised, to decide whether happiness drops.
metabolize_OldHunger(p, delta_time) ==
    IF ~p.alive THEN p
    ELSE LET r        == process(p.metabolism, p.size_mb, delta_time)
             digested == r.ret
             size1    == IF digested > 0 THEN Max(p.size_mb - digested, 0) ELSE p.size_mb
             hunger1  == Min(p.hunger + delta_time * 2, 1000)
             happy1   == IF p.hunger > 700 THEN Max(p.happiness - delta_time * 3, 0)
                                           ELSE p.happiness
         IN  [p EXCEPT !.metabolism = r.metabolism,
                       !.size_mb    = size1,
                       !.hunger     = hunger1,
                       !.happiness  = happy1,
                       !.alive      = IF hunger1 >= 1000 THEN FALSE ELSE p.alive]

\* boost_happiness without the cap at 100.
boost_happiness_NoCap(p) == [p EXCEPT !.happiness = p.happiness + 200]

\* metabolize that tests hunger > 100.0 for starvation: the cap at 100.0 keeps
\* the test from ever passing.
metabolize_DeathAbove100(p, delta_time) ==
    IF ~p.alive THEN p
    ELSE LET r        == process(p.metabolism, p.size_mb, delta_time)
             digested == r.ret
             size1    == IF digested > 0 THEN Max(p.size_mb - digested, 0) ELSE p.size_mb
             hunger1  == Min(p.hunger + delta_time * 2, 1000)
             happy1   == IF hunger1 > 700 THEN Max(p.happiness - delta_time * 3, 0)
                                          ELSE p.happiness
         IN  [p EXCEPT !.metabolism = r.metabolism,
                       !.size_mb    = size1,
                       !.hunger     = hunger1,
                       !.happiness  = happy1,
                       !.alive      = IF hunger1 > 1000 THEN FALSE ELSE p.alive]

\* Pet::metabolize.  Neither state nor mood is assigned here.
metabolize(p, delta_time) ==
    IF ~p.alive THEN p
    ELSE LET r        == process(p.metabolism, p.size_mb, delta_time)
             digested == r.ret
             size1    == IF digested > 0 THEN Max(p.size_mb - digested, 0) ELSE p.size_mb
             hunger1  == Min(p.hunger + delta_time * 2, 1000)
             happy1   == IF hunger1 > 700 THEN Max(p.happiness - delta_time * 3, 0)
                                          ELSE p.happiness
         IN  [p EXCEPT !.metabolism = r.metabolism,
                       !.size_mb    = size1,
                       !.hunger     = hunger1,
                       !.happiness  = happy1,
                       !.alive      = IF hunger1 >= 1000 THEN FALSE ELSE p.alive]

\* Pet::update_mood
update_mood(p) == [p EXCEPT !.mood = calculate_mood(p)]

\* Pet::boost_happiness
boost_happiness(p) == [p EXCEPT !.happiness = Min(p.happiness + 200, 1000)]

\* Pet::kill
kill(p) == [p EXCEPT !.alive = FALSE, !.mood = "Dead"]

\* Pet::get_favorite_food_size: a fresh random draw on every call.  These are
\* values it can return: 100 is one of the Gourmet sizes and in the range of
\* the Chaotic preference (gen_range(1..1000)).
FavoriteFoodSizes == {100}

(***************************************************************************)
(* src/game.rs.  A handler is an operator from the world it runs in (the    *)
(* Game's fields, the save file and the static LAST_WARNING) to the world   *)
(* it leaves, with the Result it returns in `result` and the messages it    *)
(* pushed in `added`.  t is Instant::now() and host the free RAM a fresh    *)
(* sample reads during the call.                                            *)
(***************************************************************************)
NoSave    == <<>>
NoWarning == 0 - 1            \* LAST_WARNING = None

World ==
    [pet |-> pet, blocks |-> blocks, min_free |-> min_free_ram,
     monitor_free |-> monitor_free, show_help |-> show_help, stats |-> stats,
     last_warning |-> last_warning, save_file |-> save_file,
     last_update |-> game_last_update, result |-> "ok", declined |-> FALSE,
     found |-> FALSE, added |-> <<>>]

\* GameStats::default() with session_start = t
GameStats_new(t) ==
    [total_mb_eaten |-> 0, feeding_count |-> 0, max_size_reached |-> 0,
     play_time |-> 0, session_start |-> t]

\* Game::add_message.  Game.messages is read by render alone; of it the model
\* keeps the texts a handler pushes, in the order it pushes them.
add_message(w, text, t) == [w EXCEPT !.added = Append(@, text)]

\* check_ram_levels without the early return on a recent LAST_WARNING.
check_ram_levels_NoLimit(w, t) ==
    LET free_ram == w.monitor_free
    IN  IF free_ram < WarningThresholdMb
        THEN LET w1 == IF free_ram < MinFreeRamMb
                       THEN add_message(w, "CRITICAL: RAM dangerously low!", t)
                       ELSE IF free_ram < WarningThresholdMb \div 2
                       THEN add_message(w, "Warning: Only .. MB RAM free", t)
                       ELSE w
             IN  [w1 EXCEPT !.last_warning = t]
        ELSE w

\* Game::check_ram_levels; Duration::as_secs truncates to whole seconds.
check_ram_levels(w, t) ==
    LET free_ram == w.monitor_free
    IN  IF w.last_warning # NoWarning /\ (t - w.last_warning) \div 10 < 10
        THEN w
        ELSE IF free_ram < WarningThresholdMb
        THEN LET w1 == IF free_ram < MinFreeRamMb
                       THEN add_message(w, "CRITICAL: RAM dangerously low!", t)
                       ELSE IF free_ram < WarningThresholdMb \div 2
                       THEN add_message(w, "Warning: Only .. MB RAM free", t)
                       ELSE w
             IN  [w1 EXCEPT !.last_warning = t]
        ELSE w

\* Game::update.  It calls nothing of the MemoryManager; its retain of recent
\* messages acts on Game.messages, which the model does not keep.
update(w, t, host) ==
    LET delta == t - w.last_update
        w1 == [w EXCEPT !.last_update = t,
                        !.stats.play_time = t - w.stats.session_start,
                        !.pet = update_mood(metabolize(w.pet, delta)),
                        !.monitor_free = host]
        w3 == check_ram_levels(w1, t)
    IN  IF w3.pet.size_mb > w3.stats.max_size_reached
        THEN [w3 EXCEPT !.stats.max_size_reached = w3.pet.size_mb]
        ELSE w3

\* Game::feed_pet.  The first check reads Game.system_monitor, which only
\* Game::update refreshes; allocate samples the host again.
feed_pet(w, amount_mb, t, host) ==
    IF w.monitor_free < amount_mb + MinFreeRamMb
    THEN [add_message(w, "Not enough free RAM! Close some programs first!", t)
            EXCEPT !.declined = TRUE]
    ELSE LET a == allocate(w.blocks, w.min_free, amount_mb, host, NoRefusal)
         IN  IF ~a.ok
             THEN [w EXCEPT !.blocks = a.blocks, !.result = "err"]
             ELSE LET w1 == [w EXCEPT !.blocks = a.blocks,
                                      !.pet = eat(w.pet, amount_mb),
                                      !.stats.total_mb_eaten = @ + amount_mb,
                                      !.stats.feeding_count = @ + 1]
                  IN  add_message(w1, "Fed", t)

\* Game::feed_pet_favorite
feed_pet_favorite(w, favorite_amount, t, host) ==
    LET w1 == add_message(w, "Favorite food!", t)
        w2 == feed_pet(w1, favorite_amount, t, host)
    IN  IF w2.result = "err" THEN w2
        ELSE [w2 EXCEPT !.pet = boost_happiness(w2.pet)]

\* SaveData as save_game builds it.  Every field of Pet but birth_time
\* (#[serde(skip)]) is written and read back.
SaveData(w) ==
    [pet |-> w.pet, total_mb_eaten |-> w.stats.total_mb_eaten,
     feeding_count |-> w.stats.feeding_count,
     max_size_reached |-> w.stats.max_size_reached]

\* Game::save_game; fs_ok: create_dir_all and write succeed.
save_game(w, t, fs_ok) ==
    IF ~fs_ok THEN [w EXCEPT !.result = "err"]
    ELSE add_message([w EXCEPT !.save_file = SaveData(w)], "Game saved successfully!", t)

\* Game::load_game
load_game(w, t, host) ==
    IF w.save_file = NoSave
    THEN add_message(w, "No save file found!", t)
    ELSE LET save_data == w.save_file
             w1 == [w EXCEPT !.found = TRUE,
                             !.pet = save_data.pet,
                             !.stats.total_mb_eaten = save_data.total_mb_eaten,
                             !.stats.feeding_count = save_data.feeding_count,
                             !.stats.max_size_reached = save_data.max_size_reached,
                             !.blocks = clear(w.blocks)]
             a  == allocate(w1.blocks, w1.min_free, w1.pet.size_mb, host, NoRefusal)
         IN  IF ~a.ok
             THEN [w1 EXCEPT !.blocks = a.blocks, !.result = "err"]
             ELSE add_message([w1 EXCEPT !.blocks = a.blocks], "Game loaded successfully!", t)

\* Game::emergency_exit
emergency_exit(w, t) ==
    add_message([w EXCEPT !.pet = kill(w.pet)], "EMERGENCY EXIT ACTIVATED!", t)

\* Game::toggle_help
toggle_help(w) == [w EXCEPT !.show_help = ~w.show_help]

\* Game::is_pet_dead
is_pet_dead == ~pet.alive

\* Game::is_help_showing
is_help_showing == show_help

(***************************************************************************)
(* SpecMem: a MemoryManager on its own, as the tests of memory.rs use it.  *)
(* Any of its public methods is called in any order while the host's free  *)
(* RAM changes under it.  `call` records the last call: its arguments, the *)
(* pool before it, the free RAM allocate sampled, what it returned, and    *)
(* the call before it.                                                     *)
(***************************************************************************)
MinFreeChoices == {0, 2}      \* arguments of MemoryManager::new in SpecMem

NoCall == [op |-> "none", amount |-> 0, ok |-> TRUE, err |-> "none", before_len |-> 0]

Summary(c) ==
    [op |-> c.op, amount |-> c.amount, ok |-> c.ok, err |-> c.err,
     before_len |-> Len(c.before)]

\* A monitor that is not rebuilt: the reading the call before this one had.
SystemMonitor_kept_free == call.free

\* SystemMonitor::new().get_free_ram_mb(), the first statements of allocate:
\* new() builds a System and ends with refresh_all(), so the reading is the
\* host's free RAM at the time of the call.
SystemMonitor_new_free == host_free

Called(op, amount, refuse_at, res, ret) ==
    [op |-> op, amount |-> amount, refuse_at |-> refuse_at, free |-> SystemMonitor_new_free,
     ok |-> res.ok, err |-> res.err, ret |-> ret, before |-> blocks,
     prev |-> Summary(call)]

NoMetabolism == <<>>
NoSystem     == <<>>
NoSafe       == <<>>

\* The fields of the game, which SpecMem does not have.
NoGame ==
    /\ pet = [alive |-> FALSE]
    /\ metabolism = NoMetabolism
    /\ system = NoSystem
    /\ safe = NoSafe
    /\ monitor_free = 0
    /\ show_help = FALSE
    /\ stats = <<>>
    /\ last_warning = 0
    /\ save_file = <<>>
    /\ saves = 0
    /\ now = 0
    /\ game_last_update = 0
    /\ loop_last_update = 0
    /\ pc = "none"
    /\ last = <<>>

InitMem ==
    /\ blocks = <<>>
    /\ min_free_ram \in MinFreeChoices
    /\ host_free \in 0..MaxFreeMb
    /\ call = [op |-> "new", amount |-> 0, refuse_at |-> NoRefusal, free |-> 0,
               ok |-> TRUE, err |-> "none", ret |-> 0, before |-> <<>>, prev |-> NoCall]
    /\ NoGame

Mem_allocate ==
    \E n \in 0..MaxAllocMb :
      \E r \in {NoRefusal} \cup 0..(n - 1) :
        /\ Len(blocks) + n <= MaxPoolMb
        /\ LET res == allocate(blocks, min_free_ram, n, SystemMonitor_new_free, r)
           IN  /\ blocks' = res.blocks
               /\ call' = Called("allocate", n, r, res, 0)
        /\ UNCHANGED <<min_free_ram, host_free>>
        /\ UNCHANGED gameVars

Mem_release ==
    \E n \in 0..MaxAllocMb :
        /\ LET res == release(blocks, n)
           IN  /\ blocks' = res.blocks
               /\ call' = Called("release", n, NoRefusal, [ok |-> res.ok, err |-> "none"], 0)
        /\ UNCHANGED <<min_free_ram, host_free>>
        /\ UNCHANGED gameVars

Mem_digest ==
    \E n \in 0..MaxAllocMb :
        /\ LET res == digest(blocks, n)
           IN  /\ blocks' = res.blocks
               /\ call' = Called("digest", n, NoRefusal, [ok |-> res.ok, err |-> "none"], res.ret)
        /\ UNCHANGED <<min_free_ram, host_free>>
        /\ UNCHANGED gameVars

Mem_clear ==
    /\ blocks' = clear(blocks)
    /\ call' = Called("clear", 0, NoRefusal, [ok |-> TRUE, err |-> "none"], 0)
    /\ UNCHANGED <<min_free_ram, host_free>>
    /\ UNCHANGED gameVars

Mem_touch_memory ==
    /\ blocks' = touch_memory(blocks)
    /\ call' = Called("touch_memory", 0, NoRefusal, [ok |-> TRUE, err |-> "none"], 0)
    /\ UNCHANGED <<min_free_ram, host_free>>
    /\ UNCHANGED gameVars

\* Other processes take or give back memory.
Mem_HostChanges ==
    /\ host_free' \in 0..MaxFreeMb
    /\ host_free' # host_free
    /\ UNCHANGED <<blocks, min_free_ram, call>>
    /\ UNCHANGED gameVars

NextMem ==
    \/ Mem_allocate
    \/ Mem_release
    \/ Mem_digest
    \/ Mem_clear
    \/ Mem_touch_memory
    \/ Mem_HostChanges

SpecMem == InitMem /\ [][NextMem]_vars

(***************************************************************************)
(* Spec: the program, src/main.rs run_game driving a Game.                 *)
(*                                                                         *)
(* pc: "top" the head of the loop; "timer" after the input stage, at the   *)
(* check of the update period; "death" the death screen's wait for a       *)
(* key; "return_err" a handler has returned Err, which handle_input and    *)
(* run_game pass on; "done" run_game has returned and the Game is dropped. *)
(***************************************************************************)
\* Samples of the host's free RAM, MB: below min_free_ram_mb; one short of
\* 50 + min_free_ram_mb; plenty.
FreeSamples == {1000, 1073, 4096}

\* Time one pass of the loop can take, tenths of a second: under 0.1 s (a key
\* was waiting and the interval had a tick due), 17.5 s (the process was stopped
\* or the terminal blocked).
TimeSteps == {0, 175}

TickPeriod == 2               \* Duration::from_millis(200)

\* A save file left by an earlier session: five 50 MB feeds and one update right
\* after Game::new.
EarlierSave ==
    [pet |-> [size_mb |-> 300, state |-> "Teen",
              metabolism |-> Metabolism_new(MetabolismRate), mood |-> "Excited",
              hunger |-> 0, happiness |-> 1000, alive |-> TRUE],
     total_mb_eaten |-> 250, feeding_count |-> 5, max_size_reached |-> 300]

NoMemCall ==
    [op |-> "none", amount |-> 0, refuse_at |-> NoRefusal, free |-> 0,
     ok |-> TRUE, err |-> "none", ret |-> 0, before |-> <<>>, prev |-> NoCall]

Ran(op, w) ==
    [op |-> op, result |-> w.result, declined |-> w.declined, found |-> w.found,
     added |-> w.added]

Returned(result) ==
    [op |-> "return", result |-> result, declined |-> FALSE, found |-> FALSE,
     added |-> <<>>]

\* The world a handler left becomes the state.
SetWorld(w) ==
    /\ pet' = w.pet
    /\ blocks' = w.blocks
    /\ monitor_free' = w.monitor_free
    /\ show_help' = w.show_help
    /\ stats' = w.stats
    /\ last_warning' = w.last_warning
    /\ save_file' = w.save_file
    /\ game_last_update' = w.last_update

\* Game::new as run_game calls it, and the first render.
GameNew ==
    /\ pet = Pet_new
    /\ metabolism = NoMetabolism
    /\ system = NoSystem
    /\ safe = NoSafe
    /\ blocks = <<>>
    /\ min_free_ram = MinFreeRamMb
    /\ host_free \in FreeSamples
    /\ monitor_free = host_free
    /\ show_help = FALSE
    /\ stats = GameStats_new(0)
    /\ last_warning = NoWarning
    /\ save_file \in {NoSave, EarlierSave}
    /\ now = 0
    /\ game_last_update = 0
    /\ call = NoMemCall
    /\ saves = 0
    /\ last = [op |-> "new", result |-> "ok", declined |-> FALSE, found |-> FALSE,
               added |-> <<>>]

Init ==
    /\ GameNew
    /\ loop_last_update = 0
    /\ pc = "top"

\* handle_input returned: Err propagates out of run_game, Ok(true) renders and
\* goes on to the timer check.
AfterInput(w) == IF w.result = "err" THEN "return_err" ELSE "timer"

\* The input stage without the check of is_pet_dead before it.
KeyPressed_NoDeathCheck == pc = "top"

\* The input stage is reached only past the check of is_pet_dead.
KeyPressed == pc = "top" /\ ~is_pet_dead

\* Other processes take and give back memory all the time; the program sees the
\* host's free RAM only when a SystemMonitor is refreshed, and host_free is what
\* that refresh reads.
HostSampled == host_free' \in FreeSamples

\* `game` goes out of scope: its MemoryManager is dropped, and so are the pet and
\* the other fields.  `call` records the drop and the pool it found.
GameDropped ==
    /\ blocks' = drop_manager(blocks)
    /\ call' = Called("drop", 0, NoRefusal, [ok |-> TRUE, err |-> "none"], 0)
    /\ pet' = [alive |-> FALSE]
    /\ monitor_free' = 0
    /\ show_help' = FALSE
    /\ stats' = <<>>
    /\ game_last_update' = 0
    /\ loop_last_update' = 0
    /\ pc' = "done"

\* if game.is_pet_dead() { show_death_screen ... }
ShowDeathScreen ==
    /\ pc = "top"
    /\ is_pet_dead
    /\ pc' = "death"
    /\ UNCHANGED <<blocks, min_free_ram, metabolism, system, safe, call, host_free, pet, monitor_free, show_help,
                   stats, last_warning, save_file, saves, now, game_last_update,
                   loop_last_update, last>>

\* Any key on the death screen: return Ok(()).
DeathKey ==
    /\ pc = "death"
    /\ GameDropped
    /\ last' = Returned("ok")
    /\ UNCHANGED <<min_free_ram, metabolism, system, safe, host_free, last_warning, save_file, saves, now>>

\* No event within the poll, an event that is no key, a key no arm matches, or
\* any key but H, Q and Esc while the help is showing.
NoEffectInput ==
    /\ KeyPressed
    /\ pc' = "timer"
    /\ UNCHANGED <<blocks, min_free_ram, metabolism, system, safe, call, host_free, pet, monitor_free, show_help,
                   stats, last_warning, save_file, saves, now, game_last_update,
                   loop_last_update, last>>

\* Space: game.feed_pet(50)
KeySpace ==
    /\ KeyPressed
    /\ ~is_help_showing
    /\ pet.size_mb + 50 <= MaxSizeMb
    /\ HostSampled
    /\ LET w == feed_pet(World, 50, now, host_free')
       IN  SetWorld(w) /\ last' = Ran("feed_pet", w) /\ pc' = AfterInput(w)
    /\ UNCHANGED <<min_free_ram, metabolism, system, safe, call, saves, now, loop_last_update>>

\* F: game.feed_pet_favorite()
KeyF ==
    /\ KeyPressed
    /\ ~is_help_showing
    /\ HostSampled
    /\ \E favorite_amount \in FavoriteFoodSizes :
          /\ pet.size_mb + favorite_amount <= MaxSizeMb
          /\ LET w == feed_pet_favorite(World, favorite_amount, now, host_free')
             IN  /\ SetWorld(w)
                 /\ last' = Ran("feed_pet_favorite", w)
                 /\ pc' = AfterInput(w)
    /\ UNCHANGED <<min_free_ram, metabolism, system, safe, call, saves, now, loop_last_update>>

\* S: game.save_game()
KeyS ==
    /\ KeyPressed
    /\ ~is_help_showing
    /\ saves < MaxSaves
    /\ \E fs_ok \in BOOLEAN :
          LET w == save_game(World, now, fs_ok)
          IN  /\ SetWorld(w)
              /\ last' = Ran("save_game", w)
              /\ pc' = AfterInput(w)
              /\ saves' = IF fs_ok THEN saves + 1 ELSE saves
    /\ UNCHANGED <<min_free_ram, metabolism, system, safe, call, host_free, now, loop_last_update>>

\* L: game.load_game()
KeyL ==
    /\ KeyPressed
    /\ ~is_help_showing
    /\ HostSampled
    /\ LET w == load_game(World, now, host_free')
       IN  SetWorld(w) /\ last' = Ran("load_game", w) /\ pc' = AfterInput(w)
    /\ UNCHANGED <<min_free_ram, metabolism, system, safe, call, saves, now, loop_last_update>>

\* X: game.emergency_exit()
KeyX ==
    /\ KeyPressed
    /\ ~is_help_showing
    /\ LET w == emergency_exit(World, now)
       IN  SetWorld(w) /\ last' = Ran("emergency_exit", w) /\ pc' = AfterInput(w)
    /\ UNCHANGED <<min_free_ram, metabolism, system, safe, call, host_free, saves, now, loop_last_update>>

\* H: game.toggle_help(), with the help showing or not.
KeyH ==
    /\ KeyPressed
    /\ LET w == toggle_help(World)
       IN  SetWorld(w) /\ last' = Ran("toggle_help", w) /\ pc' = AfterInput(w)
    /\ UNCHANGED <<min_free_ram, metabolism, system, safe, call, host_free, saves, now, loop_last_update>>

\* Q or Esc, with the help showing or not: handle_input returns Ok(false) and
\* run_game returns Ok(()).
KeyQ ==
    /\ KeyPressed
    /\ GameDropped
    /\ last' = Returned("ok")
    /\ UNCHANGED <<min_free_ram, metabolism, system, safe, host_free, last_warning, save_file, saves, now>>

\* tick_interval.tick().await ends the pass; dt is the time the pass took.
TickAwait ==
    /\ \E dt \in TimeSteps :
          /\ now + dt <= MaxTime
          /\ now' = now + dt
    /\ pc' = "top"

\* now.duration_since(last_update) < 200 ms: no update, no render.
TimerNotDue ==
    /\ pc = "timer"
    /\ now - loop_last_update < TickPeriod
    /\ TickAwait
    /\ UNCHANGED <<blocks, min_free_ram, metabolism, system, safe, call, host_free, pet, monitor_free, show_help,
                   stats, last_warning, save_file, saves, game_last_update,
                   loop_last_update, last>>

\* The period has passed and the help is showing: render only.
TimerHelpShowing ==
    /\ pc = "timer"
    /\ now - loop_last_update >= TickPeriod
    /\ is_help_showing
    /\ loop_last_update' = now
    /\ TickAwait
    /\ UNCHANGED <<blocks, min_free_ram, metabolism, system, safe, call, host_free, pet, monitor_free, show_help,
                   stats, last_warning, save_file, saves, game_last_update, last>>

\* The period has passed: game.update().
TimerUpdate ==
    /\ pc = "timer"
    /\ now - loop_last_update >= TickPeriod
    /\ ~is_help_showing
    /\ loop_last_update' = now
    /\ HostSampled
    /\ LET w == update(World, now, host_free')
       IN  SetWorld(w) /\ last' = Ran("update", w)
    /\ TickAwait
    /\ UNCHANGED <<min_free_ram, metabolism, system, safe, call, saves>>

\* event::poll, event::read, render or show_death_screen returns Err, and
\* run_game returns it.
TerminalError ==
    /\ pc \in {"top", "timer", "death"}
    /\ GameDropped
    /\ last' = Returned("err")
    /\ UNCHANGED <<min_free_ram, metabolism, system, safe, host_free, last_warning, save_file, saves, now>>

\* A handler returned Err: handle_input and run_game return it.
HandlerErrorReturns ==
    /\ pc = "return_err"
    /\ GameDropped
    /\ last' = Returned("err")
    /\ UNCHANGED <<min_free_ram, metabolism, system, safe, host_free, last_warning, save_file, saves, now>>

Next ==
    \/ ShowDeathScreen
    \/ DeathKey
    \/ NoEffectInput
    \/ KeySpace
    \/ KeyF
    \/ KeyS
    \/ KeyL
    \/ KeyX
    \/ KeyH
    \/ KeyQ
    \/ TimerNotDue
    \/ TimerHelpShowing
    \/ TimerUpdate
    \/ TerminalError
    \/ HandlerErrorReturns

Spec == Init /\ [][Next]_vars

(***************************************************************************)
(* Claims about the MemoryManager, checked under SpecMem.                  *)
(***************************************************************************)

\* C1: an allocate that succeeds grows the pool by exactly amount_mb; one that
\* fails (pre-check, or a refused block after some were pushed) leaves the count
\* as it was; in both cases the blocks that were in the pool before the call are
\* still there, in place.
C1_AllocateAllOrNothing ==
    call.op = "allocate" =>
        /\ call.ok  => get_allocated_mb(blocks) = Len(call.before) + call.amount
        /\ ~call.ok => get_allocated_mb(blocks) = Len(call.before)
        /\ Len(blocks) >= Len(call.before)
        /\ SubSeq(blocks, 1, Len(call.before)) = call.before

\* A block was refused after at least one had been pushed on a non-empty pool.
C1_Witness ==
    /\ call.op = "allocate"
    /\ call.err = "AllocationFailed"
    /\ call.refuse_at >= 1
    /\ Len(call.before) > 0
    /\ \E i \in 1..Len(call.before) : call.before[i].touched

\* C2: allocate fails with InsufficientMemory and leaves the pool unchanged
\* exactly when the free RAM it sampled is below amount_mb + min_free_mb.
C2_PreCheck ==
    call.op = "allocate" =>
        /\ call.free < call.amount + min_free_ram =>
              /\ ~call.ok
              /\ call.err = "InsufficientMemory"
              /\ blocks = call.before
        /\ call.free >= call.amount + min_free_ram => call.err # "InsufficientMemory"
        /\ (call.free >= call.amount + min_free_ram /\ call.refuse_at = NoRefusal) => call.ok

\* The boundary: free = amount + min_free - 1, with blocks in the pool.
C2_Witness ==
    /\ call.op = "allocate"
    /\ call.amount > 0
    /\ min_free_ram > 0
    /\ call.free = call.amount + min_free_ram - 1
    /\ ~call.ok
    /\ Len(blocks) > 0

\* C3: every block a successful allocate added has had the touch pass applied.
C3_NewBlocksTouched ==
    (call.op = "allocate" /\ call.ok) =>
        \A i \in (Len(call.before) + 1)..Len(blocks) : blocks[i].touched

\* C7: release and digest each remove exactly min(amount_mb, allocated) blocks
\* from the end of the pool and return Ok; digest returns the number removed; from
\* the same pool both leave the same pool.
C7_ReleaseDigest ==
    /\ call.op \in {"release", "digest"} =>
          /\ call.ok
          /\ Len(blocks) = Len(call.before) - Min(call.amount, Len(call.before))
          /\ blocks = SubSeq(call.before, 1, Len(blocks))
    /\ call.op = "digest" => call.ret = Len(call.before) - Len(blocks)
    /\ \A n \in 0..MaxAllocMb : release(blocks, n).blocks = digest(blocks, n).blocks

\* A digest asked for more than the pool held.
C7_Witness ==
    /\ call.op = "digest"
    /\ Len(call.before) > 0
    /\ call.amount > Len(call.before)
    /\ blocks = <<>>

\* C8: release(n) right after a successful allocate(n) restores the count the
\* pool had before the allocate.
C8_RoundTrip ==
    (/\ call.op = "release"
     /\ call.prev.op = "allocate"
     /\ call.prev.ok
     /\ call.prev.amount = call.amount) =>
        get_allocated_mb(blocks) = call.prev.before_len

C8_Witness ==
    /\ call.op = "release"
    /\ call.prev.op = "allocate"
    /\ call.prev.ok
    /\ call.prev.amount = call.amount
    /\ call.amount > 0
    /\ call.prev.before_len > 0


\* C26: the free RAM an allocate call compares with amount_mb + min_free_mb is
\* the host's free RAM at that call, whatever it was at any earlier call: the
\* call fails with InsufficientMemory exactly when the host's free RAM, as it
\* is when the call is made, is below amount_mb + min_free_mb.
C26_AllocateSamplesFresh ==
    [][Mem_allocate =>
          /\ call'.free = host_free
          /\ call'.err = "InsufficientMemory" <=>
                 host_free < call'.amount + min_free_ram]_vars

\* Two allocate calls in a row for the same amount: the first failed its check
\* because the host was short; the host has since gained memory and the second
\* succeeds.
C26_Witness ==
    /\ call.op = "allocate"
    /\ call.prev.op = "allocate"
    /\ call.prev.amount = call.amount
    /\ call.amount > 0
    /\ call.prev.err = "InsufficientMemory"
    /\ call.free >= call.amount + min_free_ram
    /\ call.ok

(***************************************************************************)
(* SpecApi: a Game as the library exports it (lib.rs: pub use game::Game), *)
(* the public methods that read or write the pet called in any order.      *)
(* toggle_help, which flips show_help and nothing else, is left to Spec.   *)
(***************************************************************************)
\* Samples of the host's free RAM in SpecApi: one short of 50 + min_free_ram_mb;
\* plenty.
ApiFreeSamples == {1073, 4096}

\* Time between two calls of update in SpecApi: 17.5 s.
ApiTimeSteps == {175}

ApiHostSampled == host_free' \in ApiFreeSamples

InitApi ==
    /\ GameNew
    /\ host_free \in ApiFreeSamples
    /\ loop_last_update = 0
    /\ pc = "api"

Api_update ==
    /\ \E dt \in ApiTimeSteps :
          /\ now + dt <= MaxTime
          /\ now' = now + dt
          /\ ApiHostSampled
          /\ LET w == update(World, now', host_free')
             IN  SetWorld(w) /\ last' = Ran("update", w)
    /\ UNCHANGED <<min_free_ram, metabolism, system, safe, call, saves, loop_last_update, pc>>

Api_feed_pet ==
    /\ pet.size_mb + 50 <= MaxSizeMb
    /\ Len(blocks) + 50 <= MaxSizeMb
    /\ ApiHostSampled
    /\ LET w == feed_pet(World, 50, now, host_free')
       IN  SetWorld(w) /\ last' = Ran("feed_pet", w)
    /\ UNCHANGED <<min_free_ram, metabolism, system, safe, call, saves, now, loop_last_update, pc>>

Api_feed_pet_favorite ==
    /\ ApiHostSampled
    /\ \E favorite_amount \in FavoriteFoodSizes :
          /\ pet.size_mb + favorite_amount <= MaxSizeMb
          /\ Len(blocks) + favorite_amount <= MaxSizeMb
          /\ LET w == feed_pet_favorite(World, favorite_amount, now, host_free')
             IN  SetWorld(w) /\ last' = Ran("feed_pet_favorite", w)
    /\ UNCHANGED <<min_free_ram, metabolism, system, safe, call, saves, now, loop_last_update, pc>>

Api_save_game ==
    /\ saves < MaxSaves
    /\ \E fs_ok \in BOOLEAN :
          LET w == save_game(World, now, fs_ok)
          IN  /\ SetWorld(w)
              /\ last' = Ran("save_game", w)
              /\ saves' = IF fs_ok THEN saves + 1 ELSE saves
    /\ UNCHANGED <<min_free_ram, metabolism, system, safe, call, host_free, now, loop_last_update, pc>>

Api_load_game ==
    /\ ApiHostSampled
    /\ LET w == load_game(World, now, host_free')
       IN  SetWorld(w) /\ last' = Ran("load_game", w)
    /\ UNCHANGED <<min_free_ram, metabolism, system, safe, call, saves, now, loop_last_update, pc>>

Api_emergency_exit ==
    /\ LET w == emergency_exit(World, now)
       IN  SetWorld(w) /\ last' = Ran("emergency_exit", w)
    /\ UNCHANGED <<min_free_ram, metabolism, system, safe, call, host_free, saves, now, loop_last_update, pc>>

NextApi ==
    \/ Api_update
    \/ Api_feed_pet
    \/ Api_feed_pet_favorite
    \/ Api_save_game
    \/ Api_load_game
    \/ Api_emergency_exit

SpecApi == InitApi /\ [][NextApi]_vars

(***************************************************************************)
(* Claims about the game, checked under Spec and SpecApi.                  *)
(***************************************************************************)

\* C4: after every load_game that found a save file, the pool holds exactly the
\* loaded pet's size_mb, whatever it held before.
C4_LoadResynchronises ==
    (last.op = "load_game" /\ last.found) => get_allocated_mb(blocks) = pet.size_mb

\* C5: an update in which Metabolism::process returns d > 0 for the pet shrinks
\* the pool by min(d, allocated) in that same update.
C5_TickReleasesDigested ==
    [][(TimerUpdate /\ pet.alive) =>
          LET d == process(pet.metabolism, pet.size_mb, now - game_last_update).ret
          IN  d > 0 => get_allocated_mb(blocks')
                          = get_allocated_mb(blocks) - Min(d, get_allocated_mb(blocks))]_vars

\* C6: in every state of a session, from Game::new until the game is dropped,
\* the pool holds exactly pet.size_mb blocks.
C6_AllocatedEqualsSize ==
    pc # "done" => get_allocated_mb(blocks) = pet.size_mb

\* C9: clear() empties the pool whatever it holds, and once run_game has
\* returned, by the quit key, a key on the death screen or an error, the manager
\* has been dropped and its pool is empty.
C9_NoBlockOutlivesManager ==
    /\ get_allocated_mb(clear(blocks)) = 0
    /\ pc = "done" => /\ call.op = "drop"
                      /\ get_allocated_mb(blocks) = 0

\* run_game returned an error while the pool held blocks.
C9_Witness ==
    /\ pc = "done"
    /\ call.op = "drop"
    /\ Len(call.before) > 0
    /\ last = Returned("err")
    /\ call.prev.op = "none"

\* C10, as stated: a pet whose hunger has reached 100 is dead when the metabolize
\* call that took it there returns, and a dead pet is dead in every later state,
\* whatever operation is called.
C10_DeadStaysDead ==
    /\ [](pet.hunger >= 1000 => ~pet.alive)
    /\ [][~pet.alive => ~pet'.alive]_vars

\* C10, amended: a pet whose hunger has reached 100 is dead when the metabolize
\* call that took it there returns, and a dead pet stays dead through update,
\* feed_pet, feed_pet_favorite, save_game, emergency_exit and toggle_help; a
\* load_game that finds a save file replaces it with the saved pet.
C10_DeadStaysDeadButForLoad ==
    /\ [](pet.hunger >= 1000 => ~pet.alive)
    /\ [][(~pet.alive /\ ~(last'.op = "load_game" /\ last'.found)) => ~pet'.alive]_vars

\* A pet that starved was fed afterwards: the feed was not declined, and the pet
\* is as dead and as hungry as before.
C10_Witness ==
    /\ last.op \in {"feed_pet", "feed_pet_favorite"}
    /\ ~last.declined
    /\ last.result = "ok"
    /\ pet.hunger >= 1000
    /\ ~pet.alive
    /\ get_allocated_mb(blocks) > pet.size_mb


(***************************************************************************)
(* SpecPet: a Pet on its own (lib.rs: pub use pet::Pet), as the tests of   *)
(* pet/mod.rs use it.  Its public mutating methods are called in any       *)
(* order.  `last` records the call: the method, its argument and the pet   *)
(* it was called on.  metabolize(delta_time) is called when delta_time has *)
(* passed on the clock.                                                    *)
(***************************************************************************)
PetEatAmounts == {0, 10, 50}     \* arguments of eat, MB
PetDeltas     == {0, 175, 350}   \* arguments of metabolize: 0 s, 17.5 s, 35 s

\* Every variable but pet, last and the clock: SpecPet has no manager and no game.
petRest ==
    <<blocks, min_free_ram, call, host_free, metabolism, system, safe, monitor_free, show_help,
      stats, last_warning, save_file, saves, game_last_update,
      loop_last_update, pc>>

\* eat and metabolize return Ok(()) on every path; update_mood, boost_happiness
\* and kill return ().
PetCalled(op, arg) == [op |-> op, arg |-> arg, before |-> pet, result |-> "ok"]

\* Pet::new(config) for a configured starting size and metabolism rate.
PetConfigured(starting_size_mb, metabolism_rate) ==
    [Pet_new EXCEPT !.size_mb = starting_size_mb,
                    !.metabolism = Metabolism_new(metabolism_rate)]

\* pet.starting_size_mb and pet.metabolism_rate of the configurations SpecPet
\* starts from: the defaults, a pet below the digestion floor, a rate of 10.0.
PetStartSizes == {5, StartingSizeMb}
PetRates      == {MetabolismRate, 100}

InitPet ==
    /\ \E s \in PetStartSizes, r \in PetRates :
          /\ pet = PetConfigured(s, r)
          /\ last = [op |-> "new", arg |-> 0, before |-> PetConfigured(s, r),
                     result |-> "ok"]
    /\ blocks = <<>>
    /\ min_free_ram = 0
    /\ call = NoMemCall
    /\ host_free = 0
    /\ metabolism = NoMetabolism
    /\ system = NoSystem
    /\ safe = NoSafe
    /\ monitor_free = 0
    /\ show_help = FALSE
    /\ stats = <<>>
    /\ last_warning = NoWarning
    /\ save_file = NoSave
    /\ saves = 0
    /\ now = 0
    /\ game_last_update = 0
    /\ loop_last_update = 0
    /\ pc = "pet"

Pet_eat ==
    \E amount_mb \in PetEatAmounts :
        /\ pet.size_mb + amount_mb <= MaxSizeMb
        /\ pet' = eat(pet, amount_mb)
        /\ last' = PetCalled("eat", amount_mb)
        /\ UNCHANGED <<petRest, now>>

Pet_metabolize ==
    \E delta_time \in PetDeltas :
        /\ now + delta_time <= MaxTime
        /\ now' = now + delta_time
        /\ pet' = metabolize(pet, delta_time)
        /\ last' = PetCalled("metabolize", delta_time)
        /\ UNCHANGED petRest

Pet_update_mood ==
    /\ pet' = update_mood(pet)
    /\ last' = PetCalled("update_mood", 0)
    /\ UNCHANGED <<petRest, now>>

Pet_boost_happiness ==
    /\ pet' = boost_happiness(pet)
    /\ last' = PetCalled("boost_happiness", 0)
    /\ UNCHANGED <<petRest, now>>

Pet_kill ==
    /\ pet' = kill(pet)
    /\ last' = PetCalled("kill", 0)
    /\ UNCHANGED <<petRest, now>>

NextPet ==
    \/ Pet_eat
    \/ Pet_metabolize
    \/ Pet_update_mood
    \/ Pet_boost_happiness
    \/ Pet_kill

SpecPet == InitPet /\ [][NextPet]_vars

(***************************************************************************)
(* Claims about the pet, checked under SpecPet.                            *)
(***************************************************************************)

\* The vitals of a pet: size_mb, hunger, happiness, alive.
Vitals(p) == <<p.size_mb, p.hunger, p.happiness, p.alive>>

\* C11: called on a dead pet, each of eat, metabolize, boost_happiness and kill
\* leaves size_mb, hunger, happiness and alive as they were.
C11_DeadPetNoOps ==
    (/\ last.op \in {"eat", "metabolize", "boost_happiness", "kill"}
     /\ ~last.before.alive) =>
        Vitals(pet) = Vitals(last.before)

\* C20: on a live pet eat(amount_mb) sets size_mb to size_mb + amount_mb, hunger
\* to max(0, hunger - 2 x amount_mb) and happiness to min(100, happiness +
\* 0.5 x amount_mb); from size 50, hunger 30, happiness 80, eat(50) gives size
\* 100, hunger 0, happiness 100.
C20_Eat ==
    /\ (last.op = "eat" /\ last.before.alive) =>
          /\ pet.size_mb = last.before.size_mb + last.arg
          /\ pet.hunger = Max(0, last.before.hunger - 20 * last.arg)
          /\ pet.happiness = Min(1000, last.before.happiness + 5 * last.arg)
          /\ pet.alive
    /\ LET p == [Pet_new EXCEPT !.size_mb = 50, !.hunger = 300, !.happiness = 800]
       IN  Vitals(eat(p, 50)) = <<100, 0, 1000, TRUE>>

\* A live pet hungry enough that the floor of hunger does not apply, and happy
\* enough that the cap of happiness does, has eaten.
C20_Witness ==
    /\ last.op = "eat"
    /\ last.arg > 0
    /\ last.before.alive
    /\ last.before.hunger > 20 * last.arg
    /\ pet.hunger > 0
    /\ pet.happiness = 1000
    /\ last.before.happiness < 1000

\* C21: on a live pet metabolize(delta_time) takes from size_mb what
\* Metabolism::process returns for this call (never below 0), sets hunger to
\* min(100, hunger + 2 x delta_time), and lowers happiness by 3 x delta_time
\* (never below 0) exactly when the hunger it has just set is above 70.
C21_Metabolize ==
    (last.op = "metabolize" /\ last.before.alive) =>
        LET b        == last.before
            digested == process(b.metabolism, b.size_mb, last.arg).ret
        IN  /\ pet.size_mb = Max(b.size_mb - digested, 0)
            /\ pet.hunger = Min(1000, b.hunger + 2 * last.arg)
            /\ pet.hunger > 700 => pet.happiness = Max(0, b.happiness - 3 * last.arg)
            /\ pet.hunger <= 700 => pet.happiness = b.happiness

\* A live pet at or below hunger 70 has metabolized, digested part of its size,
\* passed hunger 70 without reaching 100, and lost happiness.
C21_Witness ==
    /\ last.op = "metabolize"
    /\ last.before.alive
    /\ last.before.hunger <= 700
    /\ pet.hunger > 700
    /\ pet.hunger < 1000
    /\ pet.size_mb < last.before.size_mb
    /\ pet.size_mb > 0
    /\ pet.happiness = last.before.happiness - 3 * last.arg

\* C22: in every state a new pet reaches by eat, metabolize (delta_time >= 0),
\* boost_happiness and kill, hunger and happiness are within [0, 100], size_mb
\* is not negative, and the call that led there returned no error.
C22_VitalsInRange ==
    /\ 0 <= pet.hunger /\ pet.hunger <= 1000
    /\ 0 <= pet.happiness /\ pet.happiness <= 1000
    /\ pet.size_mb >= 0
    /\ last.result = "ok"

\* A metabolize call whose unclamped happiness would be negative has left
\* happiness at 0 and hunger at 100.
C22_Witness ==
    /\ last.op = "metabolize"
    /\ last.before.alive
    /\ last.before.happiness - 3 * last.arg < 0
    /\ pet.happiness = 0
    /\ pet.hunger = 1000
    /\ last.result = "ok"

\* Hunger and happiness values on both sides of every threshold of
\* calculate_mood (20, 30, 60, 70, 80, 90), and the ends of the scale.
MoodGrid == {0, 199, 200, 201, 299, 300, 600, 601, 700, 701, 800, 801, 900, 901, 1000}

\* C23: calculate_mood gives Dead to a pet that is not alive; otherwise Starving
\* when hunger > 90; otherwise Hungry when hunger > 70; otherwise Sad when
\* happiness < 20; otherwise Excited when happiness > 80; otherwise Happy when
\* hunger < 30 and happiness > 60; otherwise Content.  Checked on MoodGrid and
\* on every pet update_mood is called on.
C23_MoodPriority ==
    LET Expected(h, hp, a) ==
            CASE ~a                                         -> "Dead"
              [] a /\ h > 900                               -> "Starving"
              [] a /\ h <= 900 /\ h > 700                   -> "Hungry"
              [] a /\ h <= 700 /\ hp < 200                  -> "Sad"
              [] a /\ h <= 700 /\ hp > 800                  -> "Excited"
              [] a /\ h < 300 /\ hp > 600 /\ hp <= 800      -> "Happy"
              [] a /\ h <= 700 /\ hp >= 200 /\ hp <= 800
                   /\ ~(h < 300 /\ hp > 600)                -> "Content"
    IN  /\ \A h \in MoodGrid, hp \in MoodGrid, a \in BOOLEAN :
              calculate_mood([Pet_new EXCEPT !.hunger = h, !.happiness = hp, !.alive = a])
                  = Expected(h, hp, a)
        /\ last.op = "update_mood" =>
              pet.mood = Expected(pet.hunger, pet.happiness, pet.alive)

\* update_mood has been called on a live pet that is both hungry (above 70) and
\* very happy (above 80): the hunger rule wins.
C23_Witness ==
    /\ last.op = "update_mood"
    /\ pet.alive
    /\ pet.hunger > 700 /\ pet.hunger <= 900
    /\ pet.happiness > 800
    /\ pet.mood = "Hungry"

\* C24: the mood get_mood() reports is the mood calculate_mood derives from the
\* current alive, hunger and happiness, in every state: for a new pet and after
\* each of eat, metabolize, boost_happiness and kill.
C24_MoodNeverDrifts ==
    last.op \in {"new", "eat", "metabolize", "boost_happiness", "kill"} =>
        pet.mood = calculate_mood(pet)

\* C25: the tier get_state() reports is the tier of the current size_mb, in
\* every state: for a new pet, after eat and after metabolize.
C25_StateTracksSize ==
    last.op \in {"new", "eat", "metabolize"} => pet.state = SizeTier(pet.size_mb)

\* C34: digestion never shrinks the pet to nothing.  metabolize on a pet of 10 MB
\* or more leaves at least size_mb - size_mb / 2, which is at least 5; on a pet
\* below 10 MB it leaves size_mb as it was; so a pet that starts at 5 MB or more
\* is at 5 MB or more after every eat and metabolize.
C34_NeverDigestedToZero ==
    /\ pet.size_mb >= 5
    /\ (last.op = "metabolize" /\ last.before.size_mb >= 10) =>
          /\ pet.size_mb >= last.before.size_mb - last.before.size_mb \div 2
          /\ last.before.size_mb - last.before.size_mb \div 2 >= 5
    /\ (last.op = "metabolize" /\ last.before.size_mb < 10) =>
          pet.size_mb = last.before.size_mb

\* A live pet was digested by the full half of its size and is now below the
\* floor of 10 MB.
C34_Witness ==
    /\ last.op = "metabolize"
    /\ last.before.alive
    /\ last.before.size_mb >= 10
    /\ pet.size_mb = last.before.size_mb - last.before.size_mb \div 2
    /\ pet.size_mb < 10

(***************************************************************************)
(* SpecStarve: a Pet that is ticked for as long as the program runs, the   *)
(* way run_game drives it (main.rs: every tick_rate the loop calls         *)
(* Game::update, which calls pet.metabolize(delta_time) with the time      *)
(* since the last update).  Between ticks the pet may be fed (eat) or      *)
(* killed.  `now` is the cumulative ticked time since Pet::new, counted up *)
(* to MaxTime; last.fed says whether eat has been called since Pet::new and *)
(* last.was_alive whether the pet was alive when the call began.           *)
(***************************************************************************)
StarveDeltas     == {100, 175, 350}   \* delta_time of a tick: 10 s, 17.5 s, 35 s
StarveEatAmounts == {50}          \* arguments of eat, MB

StarveCalled(op, arg, fed) ==
    [op |-> op, arg |-> arg, was_alive |-> pet.alive, fed |-> fed]

InitStarve ==
    /\ pet = Pet_new
    /\ last = [op |-> "new", arg |-> 0, was_alive |-> TRUE, fed |-> FALSE]
    /\ blocks = <<>>
    /\ min_free_ram = 0
    /\ call = NoMemCall
    /\ host_free = 0
    /\ metabolism = NoMetabolism
    /\ system = NoSystem
    /\ safe = NoSafe
    /\ monitor_free = 0
    /\ show_help = FALSE
    /\ stats = <<>>
    /\ last_warning = NoWarning
    /\ save_file = NoSave
    /\ saves = 0
    /\ now = 0
    /\ game_last_update = 0
    /\ loop_last_update = 0
    /\ pc = "starve"

\* A tick: metabolize(delta_time) with a positive delta_time.
Starve_tick ==
    \E delta_time \in StarveDeltas :
        /\ now' = Min(now + delta_time, MaxTime)
        /\ pet' = metabolize(pet, delta_time)
        /\ last' = StarveCalled("metabolize", delta_time, last.fed)
        /\ UNCHANGED petRest

\* A feed that succeeds: eat(amount_mb).
Starve_eat ==
    \E amount_mb \in StarveEatAmounts :
        /\ pet.size_mb + amount_mb <= MaxSizeMb
        /\ pet' = eat(pet, amount_mb)
        /\ last' = StarveCalled("eat", amount_mb, TRUE)
        /\ UNCHANGED <<petRest, now>>

Starve_kill ==
    /\ pet' = kill(pet)
    /\ last' = StarveCalled("kill", 0, last.fed)
    /\ UNCHANGED <<petRest, now>>

NextStarve ==
    \/ Starve_tick
    \/ Starve_eat
    \/ Starve_kill

\* The loop of run_game never stops ticking while the program runs.
SpecStarve == InitStarve /\ [][NextStarve]_vars /\ WF_vars(Starve_tick)

\* C35: starvation is inevitable without food.  In every behaviour in which
\* ticks with a positive delta keep occurring and, from some point on, no feed
\* succeeds, the pet is eventually dead (and stays dead).  A pet that has not
\* been fed since Pet::new (hunger 30) has not starved before 35 s of ticked
\* time and is dead once the ticked time has reached 35 s.
C35_StarvationInevitable ==
    /\ [](~last.fed /\ now < 350 => pet.hunger < 1000)
    /\ [](~last.fed /\ now >= 350 => ~pet.alive)
    /\ ([]<><<Starve_tick>>_vars /\ <>[][~Starve_eat]_vars) => <>[](~pet.alive)

\* A pet never fed dies of hunger in the tick that brings the ticked time to
\* 35 s exactly.
C35_Witness ==
    /\ last.op = "metabolize"
    /\ ~last.fed
    /\ last.was_alive
    /\ now = 350
    /\ pet.hunger = 1000
    /\ ~pet.alive

(***************************************************************************)
(* Claims about feeds and loads that fail, checked under Spec.             *)
(***************************************************************************)

\* C12: every feed_pet(amount_mb) ends in one of two ways.  Success: the pool and
\* the pet's size_mb grew by amount_mb and the feed statistics were updated.
\* Decline: the pool, the pet's vitals and the statistics are unchanged and a
\* message giving the reason was added.
C12_FeedSucceedsOrDeclines ==
    [][KeySpace =>
          \/ /\ last'.result = "ok"
             /\ get_allocated_mb(blocks') = get_allocated_mb(blocks) + 50
             /\ pet'.size_mb = pet.size_mb + 50
             /\ stats'.total_mb_eaten = stats.total_mb_eaten + 50
             /\ stats'.feeding_count = stats.feeding_count + 1
          \/ /\ last'.result = "ok"
             /\ blocks' = blocks
             /\ Vitals(pet') = Vitals(pet)
             /\ stats' = stats
             /\ last'.added # <<>>]_vars

\* C13: an allocation failure during a feed or a load does not end the session:
\* run_game does not return the error, it goes on to the timer check and the
\* next pass of the loop.
C13_AllocationFailureNotFatal ==
    (/\ last.op \in {"feed_pet", "feed_pet_favorite", "load_game"}
     /\ last.result = "err") =>
        pc \notin {"return_err", "done"}

\* C14: a load_game whose re-allocation fails leaves the pet, the cumulative
\* statistics and the pool as they were before the call.
C14_FailedLoadChangesNothing ==
    [][(KeyL /\ last'.result = "err") =>
          /\ pet' = pet
          /\ stats' = stats
          /\ blocks' = blocks]_vars

\* C27: a feed is declined only when the host's free RAM at the time of the
\* request is below amount_mb + min_free_mb: the check at the start of
\* Game::feed_pet, like the one in allocate, decides by a sample taken at the
\* request, never by the one the last tick left.
C27_FeedDecidesOnFreshSample ==
    [][KeySpace => (last'.declined => host_free' < 50 + MinFreeRamMb)]_vars

\* C33: a favourite-food feed that is declined leaves the pet's size_mb, hunger
\* and happiness and the feed statistics as they were; the 20-point bump of
\* happiness is applied only when the feed succeeded.
C33_DeclinedFavoriteChangesNothing ==
    [][(KeyF /\ last'.declined) =>
          /\ Vitals(pet') = Vitals(pet)
          /\ stats'.total_mb_eaten = stats.total_mb_eaten
          /\ stats'.feeding_count = stats.feeding_count]_vars

\* C38: max_size_reached is the largest size the pet has had.  After every
\* Game::update it is at least the size the pet had when the update began: a
\* size the pet has had since the game started or was last loaded, whether a
\* tick or a feed since the previous tick left it.
C38_MaxSizeIsPeak ==
    [][TimerUpdate => stats'.max_size_reached >= pet.size_mb]_vars

\* The loop has found the pet dead at the top of an iteration, is waiting on the
\* death screen, or has returned.
DeadAtTop == (pc = "top" /\ is_pet_dead) \/ pc \in {"death", "done"}

\* C37: once the pet is dead at the top of a loop iteration, the loop performs
\* no further update, feed, save or load.  Every later step is the death screen
\* being shown, which changes nothing of the game, or the return of run_game,
\* which drops the game: on the next key press (Ok) or because a terminal call
\* failed (Err).  After the return there is no step.
C37_DeadLoopOnlyExits ==
    [][DeadAtTop =>
          \/ /\ pc = "top"
             /\ pc' = "death"
             /\ UNCHANGED <<blocks, pet, monitor_free, show_help, stats, last_warning,
                            save_file, saves, game_last_update, loop_last_update,
                            last>>
          \/ /\ pc \in {"top", "death"}
             /\ pc' = "done"
             /\ last'.op = "return"
             /\ pc = "death" => (last'.result = "ok" <=> DeathKey)
             /\ blocks' = <<>>
             /\ UNCHANGED <<save_file, saves, last_warning>>]_vars

\* The pet starved in an update, the next iteration found it dead and the
\* death screen is waiting for a key; the game still holds its pool.
C37_Witness ==
    /\ pc = "death"
    /\ is_pet_dead
    /\ pet.hunger = 1000
    /\ last.op = "update"
    /\ get_allocated_mb(blocks) > 0

(***************************************************************************)
(* SpecTicks: the loop of run_game with a player who presses no key but H, *)
(* on a clock fine enough to tell 5 s, 9.9 s and 10 s apart.  pc is as in  *)
(* Spec.  `last` keeps, besides the operation and the messages it pushed,  *)
(* what the claims about the help overlay and the low-RAM advisories       *)
(* speak of:                                                               *)
(*   help          "none", "open" (H has opened the help), "closed" (H has *)
(*                 closed it and no update has run since), "ticked"        *)
(*   open_hunger   the pet's hunger when the help was opened               *)
(*   outside       time that has passed with the help not showing, from    *)
(*                 the last update before the help was opened on           *)
(*   warned_at, prev_warned_at   when check_ram_levels pushed its latest   *)
(*                 message and the one before (NoWarning: not yet)         *)
(***************************************************************************)
\* Time one pass of the loop can take, tenths of a second.
TickSteps == {0, 50, 99, 100}

\* pushed: the step is an update in which check_ram_levels pushed a message.
TicksRan(op, added, help, open_hunger, outside, pushed) ==
    [op |-> op, added |-> added, help |-> help, open_hunger |-> open_hunger,
     outside |-> outside,
     warned_at |-> IF pushed THEN now ELSE last.warned_at,
     prev_warned_at |-> IF pushed THEN last.warned_at ELSE last.prev_warned_at]

\* Time passes at the end of a pass; it counts as time outside the help when the
\* help has been closed and the first update since has not run yet.
TicksAwait(op, added, help, pushed) ==
    \E dt \in TickSteps :
        /\ now + dt <= MaxTime
        /\ now' = now + dt
        /\ last' = TicksRan(op, added, help, last.open_hunger,
                            IF help = "closed" THEN last.outside + dt ELSE last.outside,
                            pushed)
        /\ pc' = "top"

InitTicks ==
    /\ pet = Pet_new
    /\ metabolism = NoMetabolism
    /\ system = NoSystem
    /\ safe = NoSafe
    /\ blocks = <<>>
    /\ min_free_ram = MinFreeRamMb
    /\ host_free \in FreeSamples
    /\ monitor_free = host_free
    /\ show_help = FALSE
    /\ stats = GameStats_new(0)
    /\ last_warning = NoWarning
    /\ save_file = NoSave
    /\ now = 0
    /\ game_last_update = 0
    /\ loop_last_update = 0
    /\ call = NoMemCall
    /\ saves = 0
    /\ last = [op |-> "new", added |-> <<>>, help |-> "none", open_hunger |-> 0,
               outside |-> 0, warned_at |-> NoWarning, prev_warned_at |-> NoWarning]
    /\ pc = "top"

\* Every variable no step of SpecTicks changes.
ticksRest == <<blocks, min_free_ram, call, metabolism, system, safe, save_file, saves>>

\* if game.is_pet_dead() { show_death_screen ... }: the loop ticks no more.
Ticks_ShowDeathScreen ==
    /\ pc = "top"
    /\ is_pet_dead
    /\ pc' = "death"
    /\ UNCHANGED <<ticksRest, host_free, pet, monitor_free, show_help, stats,
                   last_warning, now, game_last_update, loop_last_update, last>>

\* No key within the poll, or a key that has no effect.
Ticks_NoEffectInput ==
    /\ KeyPressed
    /\ pc' = "timer"
    /\ UNCHANGED <<ticksRest, host_free, pet, monitor_free, show_help, stats,
                   last_warning, now, game_last_update, loop_last_update, last>>

\* H: game.toggle_help(), opening the help or closing it.
Ticks_KeyH ==
    /\ KeyPressed
    /\ LET w == toggle_help(World)
       IN  /\ SetWorld(w)
           /\ last' = IF w.show_help
                      THEN TicksRan("toggle_help", <<>>, "open", pet.hunger,
                                    now - game_last_update, FALSE)
                      ELSE TicksRan("toggle_help", <<>>, "closed", last.open_hunger,
                                    last.outside, FALSE)
    /\ pc' = "timer"
    /\ UNCHANGED <<ticksRest, host_free, now, loop_last_update>>

\* now.duration_since(last_update) < 200 ms: no update, no render.
Ticks_TimerNotDue ==
    /\ pc = "timer"
    /\ now - loop_last_update < TickPeriod
    /\ TicksAwait(last.op, last.added, last.help, FALSE)
    /\ UNCHANGED <<ticksRest, host_free, pet, monitor_free, show_help, stats,
                   last_warning, game_last_update, loop_last_update>>

\* The period has passed and the help is showing: render only.
Ticks_TimerHelpShowing ==
    /\ pc = "timer"
    /\ now - loop_last_update >= TickPeriod
    /\ is_help_showing
    /\ loop_last_update' = now
    /\ TicksAwait(last.op, last.added, last.help, FALSE)
    /\ UNCHANGED <<ticksRest, host_free, pet, monitor_free, show_help, stats,
                   last_warning, game_last_update>>

\* The period has passed: game.update().
Ticks_TimerUpdate ==
    /\ pc = "timer"
    /\ now - loop_last_update >= TickPeriod
    /\ ~is_help_showing
    /\ loop_last_update' = now
    /\ HostSampled
    /\ LET w == update(World, now, host_free')
       IN  /\ SetWorld(w)
           /\ TicksAwait("update", w.added,
                         IF last.help = "closed" THEN "ticked" ELSE last.help,
                         w.added # <<>>)
    /\ UNCHANGED ticksRest

NextTicks ==
    \/ Ticks_ShowDeathScreen
    \/ Ticks_NoEffectInput
    \/ Ticks_KeyH
    \/ Ticks_TimerNotDue
    \/ Ticks_TimerHelpShowing
    \/ Ticks_TimerUpdate

SpecTicks == InitTicks /\ [][NextTicks]_vars

\* C36: showing the help pauses the simulation.  While the help is showing no
\* step changes the pet; and the hunger the first update after the help was
\* closed leaves exceeds the hunger at the opening of the help by at most 2 x
\* the time that passed with the help not showing (between the last update
\* before the help was opened and that first update).
C36_HelpPausesSimulation ==
    /\ [][is_help_showing => pet' = pet]_vars
    /\ [][(Ticks_TimerUpdate /\ last.help = "closed") =>
              pet'.hunger <= last.open_hunger + 2 * last.outside]_vars

\* C39: check_ram_levels pushes at most one low-RAM message in any 10-second
\* window: two of its messages are at least 10 s apart.
C39_WarningsRateLimited ==
    (last.warned_at # NoWarning /\ last.prev_warned_at # NoWarning) =>
        last.warned_at - last.prev_warned_at >= 100

\* An update sampled critically low RAM less than 10 s after a message and
\* pushed nothing; a second message had been pushed before.
C39_Witness ==
    /\ last.op = "update"
    /\ monitor_free < MinFreeRamMb
    /\ last.added = <<>>
    /\ last.prev_warned_at # NoWarning
    /\ game_last_update - last.warned_at > 0
    /\ game_last_update - last.warned_at < 100

(***************************************************************************)
(* SpecMet: a Metabolism on its own, as the tests of metabolism.rs use it. *)
(* Its public methods are called in any order.  `last` records the call:   *)
(* the method, its arguments, the Metabolism it was called on and what it  *)
(* returned.                                                               *)
(***************************************************************************)
MaxDigestionTimer == 20      \* process is not called to accumulate beyond 2 s
MaxModifier       == 200     \* slow is not called to take the modifier beyond 20.0

MetBaseRates == {10, 100}    \* Metabolism::new(1.0) and Metabolism::new(10.0)
MetDeltas    == {0, 5, 10, 175}   \* delta_time: 0 s, 0.5 s, 1 s, 17.5 s
MetFactors   == {1, 5, 20}   \* arguments of boost and slow: 0.1, 0.5, 2.0

\* Sizes passed to process and get_rate: both sides of the floor of 10 MB, the
\* sizes of the tests, and one size in each tier.
MetSizes == {9, 10, 50, 100, 101, 301, 601, 1500, 1501}

\* Every variable but metabolism and last.
metRest ==
    <<blocks, min_free_ram, call, host_free, pet, system, safe, monitor_free, show_help,
      stats, last_warning, save_file, saves, now, game_last_update,
      loop_last_update, pc>>

MetCalled(op, size, arg, ret) ==
    [op |-> op, size |-> size, arg |-> arg, before |-> metabolism, ret |-> ret]

InitMet ==
    /\ \E base_rate \in MetBaseRates :
          /\ metabolism = Metabolism_new(base_rate)
          /\ system = NoSystem
          /\ safe = NoSafe
          /\ last = [op |-> "new", size |-> 0, arg |-> base_rate,
                     before |-> Metabolism_new(base_rate), ret |-> 0]
    /\ pet = [alive |-> FALSE]
    /\ blocks = <<>>
    /\ min_free_ram = 0
    /\ call = NoMemCall
    /\ host_free = 0
    /\ monitor_free = 0
    /\ show_help = FALSE
    /\ stats = <<>>
    /\ last_warning = NoWarning
    /\ save_file = NoSave
    /\ saves = 0
    /\ now = 0
    /\ game_last_update = 0
    /\ loop_last_update = 0
    /\ pc = "metabolism"

Met_process ==
    \E current_size \in MetSizes :
      \E delta_time \in MetDeltas :
        LET r == process(metabolism, current_size, delta_time)
        IN  /\ r.metabolism.digestion_timer <= MaxDigestionTimer
            /\ metabolism' = r.metabolism
            /\ last' = MetCalled("process", current_size, delta_time, r.ret)
            /\ UNCHANGED metRest

\* The arguments are those for which the new modifier is a whole number of
\* tenths.
Met_boost ==
    \E multiplier \in MetFactors :
        /\ (metabolism.modifier * multiplier) % 10 = 0
        /\ metabolism' = boost(metabolism, multiplier)
        /\ last' = MetCalled("boost", 0, multiplier, 0)
        /\ UNCHANGED metRest

Met_slow ==
    \E divisor \in MetFactors :
        /\ (metabolism.modifier * 10) % divisor = 0
        /\ slow(metabolism, divisor).modifier <= MaxModifier
        /\ metabolism' = slow(metabolism, divisor)
        /\ last' = MetCalled("slow", 0, divisor, 0)
        /\ UNCHANGED metRest

Met_reset ==
    /\ metabolism' = reset(metabolism)
    /\ last' = MetCalled("reset", 0, 0, 0)
    /\ UNCHANGED metRest

Met_get_rate ==
    \E size_mb \in MetSizes :
        /\ last' = MetCalled("get_rate", size_mb, 0, get_rate(metabolism, size_mb))
        /\ UNCHANGED <<metabolism, metRest>>

NextMet ==
    \/ Met_process
    \/ Met_boost
    \/ Met_slow
    \/ Met_reset
    \/ Met_get_rate

SpecMet == InitMet /\ [][NextMet]_vars

(***************************************************************************)
(* Claims about the Metabolism, checked under SpecMet.                     *)
(***************************************************************************)

\* floor(effective_rate x (digestion_timer + delta_seconds)) for a call of
\* process on metabolism m, computed from get_rate.
FloorOfDigest(m, size_mb, delta_time) ==
    (get_rate(m, size_mb) * (m.digestion_timer + delta_time)) \div 10000

\* C15: process returns at most current_size_mb / 2 (integer division), and
\* Metabolism::new(10.0).process(100, 1.0) returns a value > 0 and <= 50.
C15_ProcessAtMostHalf ==
    /\ last.op = "process" => last.ret <= last.size \div 2
    /\ LET r == process(Metabolism_new(100), 100, 10)
       IN  r.ret > 0 /\ r.ret <= 50

\* The cap applied: the floor of rate x timer was more than half the size.
C15_Witness ==
    /\ last.op = "process"
    /\ last.size >= 10
    /\ FloorOfDigest(last.before, last.size, last.arg) > last.size \div 2
    /\ last.ret = last.size \div 2

\* C16: for current_size_mb < 10 process returns 0, whatever delta_seconds,
\* base_rate, modifier and the accumulated digestion_timer are.
C16_NoDigestBelowTen ==
    (last.op = "process" /\ last.size < 10) => last.ret = 0

\* process was called on a 9 MB pet with a raised modifier, time on the timer and
\* a long delta.
C16_Witness ==
    /\ last.op = "process"
    /\ last.size = 9
    /\ last.arg = 175
    /\ last.before.modifier > 10
    /\ last.before.base_rate = 100
    /\ last.before.digestion_timer > 0
    /\ last.ret = 0

\* C17: in process with current_size_mb >= 10: if floor(effective_rate x
\* (digestion_timer + delta_seconds)) > 0, the timer afterwards is the fractional
\* part of the accumulated timer, in [0, 1); otherwise the call returns 0 and the
\* timer is its old value plus delta_seconds.
C17_TimerRemainder ==
    (last.op = "process" /\ last.size >= 10) =>
        LET timer == last.before.digestion_timer + last.arg
        IN  IF FloorOfDigest(last.before, last.size, last.arg) > 0
            THEN /\ metabolism.digestion_timer = timer % 10
                 /\ metabolism.digestion_timer >= 0
                 /\ metabolism.digestion_timer < 10
            ELSE /\ last.ret = 0
                 /\ metabolism.digestion_timer = timer

\* A digestion that left half a second on the timer, out of more than a second
\* accumulated over several calls.
C17_Witness ==
    /\ last.op = "process"
    /\ last.ret > 0
    /\ last.before.digestion_timer > 0
    /\ last.before.digestion_timer + last.arg > 10
    /\ metabolism.digestion_timer = 5

\* C18: after any sequence of boost(k) and slow(k) with positive k, from
\* modifier 1.0, the modifier lies in [0.1, 3.0].
C18_ModifierClamped ==
    /\ metabolism.modifier >= 1
    /\ metabolism.modifier <= 30

\* Both sides of every tier boundary of the size modifier.
TierEdges == {0, 100, 101, 300, 301, 600, 601, 1000, 1001, 1500, 1501, 2000}

\* C19: the size multiplier is a non-decreasing step function with six levels,
\* 0.5 for 0..=100, 0.8 for 101..=300, 1.0 for 301..=600, 1.2 for 601..=1000,
\* 1.5 for 1001..=1500 and 2.0 above; get_rate(a) <= get_rate(b) for a <= b, and
\* get_rate(1500) > get_rate(50).
C19_SizeModifierSteps ==
    /\ <<calculate_size_modifier(0), calculate_size_modifier(100)>> = <<5, 5>>
    /\ <<calculate_size_modifier(101), calculate_size_modifier(300)>> = <<8, 8>>
    /\ <<calculate_size_modifier(301), calculate_size_modifier(600)>> = <<10, 10>>
    /\ <<calculate_size_modifier(601), calculate_size_modifier(1000)>> = <<12, 12>>
    /\ <<calculate_size_modifier(1001), calculate_size_modifier(1500)>> = <<15, 15>>
    /\ <<calculate_size_modifier(1501), calculate_size_modifier(2000)>> = <<20, 20>>
    /\ Cardinality({calculate_size_modifier(a) : a \in TierEdges \cup MetSizes}) = 6
    /\ \A a, b \in TierEdges \cup MetSizes :
          a <= b => get_rate(metabolism, a) <= get_rate(metabolism, b)
    /\ get_rate(metabolism, 1500) > get_rate(metabolism, 50)
    /\ last.op = "get_rate" => last.ret = get_rate(last.before, last.size)

\* get_rate(1500) was called on a metabolism whose modifier had been changed.
C19_Witness ==
    /\ last.op = "get_rate"
    /\ last.size = 1500
    /\ last.before.modifier # 10
    /\ last.ret > get_rate(metabolism, 50)
    /\ last.ret = 15 * metabolism.base_rate * metabolism.modifier


\* C32: the rate is an amount per second.  From a digestion_timer of 0, over
\* process calls at one size and one modifier, the amounts returned add up to
\* at most the effective rate times the seconds passed.  Stated for every two
\* calls from the metabolism as it is, whenever its timer is 0.
C32_RateIsPerSecond ==
    metabolism.digestion_timer = 0 =>
        \A size_mb \in MetSizes, d1 \in MetDeltas, d2 \in MetDeltas :
            LET p1   == process(metabolism, size_mb, d1)
                p2   == process(p1.metabolism, size_mb, d2)
                rate == metabolism.base_rate * metabolism.modifier
                            * calculate_size_modifier(size_mb)
            IN  (p1.ret + p2.ret) * 10000 <= rate * (d1 + d2)

(***************************************************************************)
(* SpecSteps: run_game with the handlers taken statement by statement.     *)
(* Game::feed_pet, Game::load_game and Game::update change the pool, the   *)
(* pet and the statistics in separate statements, so between two of them   *)
(* the game is half-changed.  Here pc is a record: `at` is the place in    *)
(* run_game ("top", "timer", "return_err", "done") or "in" while a handler *)
(* is between two of its statements, and then `op` and `step` say which.   *)
(* `last` records the handler that began last: the world and the place it  *)
(* began in, the clock and the host sample it read, and what it has        *)
(* returned and pushed so far.  The help screen and saving are left out.   *)
(***************************************************************************)
Pc(at) == [at |-> at, op |-> "none", step |-> 0]

In(op, step) == [at |-> "in", op |-> op, step |-> step]

Began(op, host) ==
    [op |-> op, begun |-> World, began_at |-> pc.at, t |-> now, host |-> host,
     result |-> "ok", declined |-> FALSE, found |-> FALSE, added |-> <<>>]

\* The variables no step of SpecSteps but the return of run_game changes.
stepsRest == <<min_free_ram, metabolism, system, safe, call, show_help, saves>>

InitSteps ==
    /\ GameNew
    /\ loop_last_update = 0
    /\ pc = Pc("top")

\* The input stage: event::poll and event::read at the head of the loop, which
\* run_game reaches when no handler is running.
InputStage == pc.at = "top" /\ ~is_pet_dead

\* The tick as a task of its own, which could run while a handler is between
\* two statements.
TimerCheck_OwnTask == pc.at \in {"timer", "in"}

\* The timer check of run_game: it follows `handle_input(..).await?` in the
\* same task, so it is reached only after the handler has returned.
TimerCheck == pc.at = "timer"

\* No event, or a key no arm of handle_input matches.
Step_NoEffectInput ==
    /\ InputStage
    /\ pc' = Pc("timer")
    /\ UNCHANGED <<blocks, host_free, pet, monitor_free, stats, last_warning, save_file,
                   now, game_last_update, loop_last_update, last, stepsRest>>

\* Space, feed_pet(50): the check on Game.system_monitor and
\* memory_manager.allocate(amount_mb)?.
Step_feed_pet_allocate ==
    /\ InputStage
    /\ pet.size_mb + 50 <= MaxSizeMb
    /\ HostSampled
    /\ IF monitor_free < 50 + MinFreeRamMb
       THEN /\ blocks' = blocks
            /\ last' = [Began("feed_pet", host_free') EXCEPT
                           !.declined = TRUE,
                           !.added = <<"Not enough free RAM! Close some programs first!">>]
            /\ pc' = Pc("timer")
       ELSE LET a == allocate(blocks, min_free_ram, 50, host_free', NoRefusal)
            IN  /\ blocks' = a.blocks
                /\ last' = [Began("feed_pet", host_free') EXCEPT
                               !.result = IF a.ok THEN "ok" ELSE "err"]
                /\ pc' = IF a.ok THEN In("feed_pet", 1) ELSE Pc("return_err")
    /\ UNCHANGED <<pet, monitor_free, stats, last_warning, save_file, now,
                   game_last_update, loop_last_update, stepsRest>>

\* feed_pet: self.pet.eat(amount_mb)?
Step_feed_pet_eat ==
    /\ pc = In("feed_pet", 1)
    /\ pet' = eat(pet, 50)
    /\ pc' = In("feed_pet", 2)
    /\ UNCHANGED <<blocks, host_free, monitor_free, stats, last_warning, save_file, now,
                   game_last_update, loop_last_update, last, stepsRest>>

\* feed_pet: the two statistics and the message; the handler returns Ok(()).
Step_feed_pet_stats ==
    /\ pc = In("feed_pet", 2)
    /\ stats' = [stats EXCEPT !.total_mb_eaten = @ + 50, !.feeding_count = @ + 1]
    /\ last' = [last EXCEPT !.added = Append(@, "Fed")]
    /\ pc' = Pc("timer")
    /\ UNCHANGED <<blocks, host_free, pet, monitor_free, last_warning, save_file, now,
                   game_last_update, loop_last_update, stepsRest>>

\* L, load_game: the test for the save file, and the assignments of the saved
\* pet and statistics.
Step_load_game_assign ==
    /\ InputStage
    /\ IF save_file = NoSave
       THEN /\ last' = [Began("load_game", host_free) EXCEPT
                           !.added = <<"No save file found!">>]
            /\ pc' = Pc("timer")
            /\ UNCHANGED <<pet, stats>>
       ELSE /\ pet' = save_file.pet
            /\ stats' = [stats EXCEPT
                            !.total_mb_eaten = save_file.total_mb_eaten,
                            !.feeding_count = save_file.feeding_count,
                            !.max_size_reached = save_file.max_size_reached]
            /\ last' = [Began("load_game", host_free) EXCEPT !.found = TRUE]
            /\ pc' = In("load_game", 1)
    /\ UNCHANGED <<blocks, host_free, monitor_free, last_warning, save_file, now,
                   game_last_update, loop_last_update, stepsRest>>

\* load_game: self.memory_manager.clear()
Step_load_game_clear ==
    /\ pc = In("load_game", 1)
    /\ blocks' = clear(blocks)
    /\ pc' = In("load_game", 2)
    /\ UNCHANGED <<host_free, pet, monitor_free, stats, last_warning, save_file, now,
                   game_last_update, loop_last_update, last, stepsRest>>

\* load_game: self.memory_manager.allocate(self.pet.get_size_mb())? and the
\* message; the handler returns.
Step_load_game_allocate ==
    /\ pc = In("load_game", 2)
    /\ HostSampled
    /\ LET a == allocate(blocks, min_free_ram, pet.size_mb, host_free', NoRefusal)
       IN  /\ blocks' = a.blocks
           /\ last' = [last EXCEPT
                          !.host = host_free',
                          !.result = IF a.ok THEN "ok" ELSE "err",
                          !.added = IF a.ok THEN Append(@, "Game loaded successfully!")
                                            ELSE @]
           /\ pc' = IF a.ok THEN Pc("timer") ELSE Pc("return_err")
    /\ UNCHANGED <<pet, monitor_free, stats, last_warning, save_file, now,
                   game_last_update, loop_last_update, stepsRest>>

\* X, emergency_exit: one statement changes the pet.
Step_emergency_exit ==
    /\ InputStage
    /\ pet' = kill(pet)
    /\ last' = [Began("emergency_exit", host_free) EXCEPT
                   !.added = <<"EMERGENCY EXIT ACTIVATED!">>]
    /\ pc' = Pc("timer")
    /\ UNCHANGED <<blocks, host_free, monitor_free, stats, last_warning, save_file, now,
                   game_last_update, loop_last_update, stepsRest>>

\* tick_interval.tick().await ends the pass of the loop.
Step_TickAwait ==
    /\ \E dt \in TimeSteps :
          /\ now + dt <= MaxTime
          /\ now' = now + dt
    /\ pc' = Pc("top")

Step_TimerNotDue ==
    /\ TimerCheck
    /\ now - loop_last_update < TickPeriod
    /\ Step_TickAwait
    /\ UNCHANGED <<blocks, host_free, pet, monitor_free, stats, last_warning, save_file,
                   game_last_update, loop_last_update, last, stepsRest>>

\* The period has passed, game.update(): last_update, play_time and
\* self.pet.metabolize(delta)?
Step_update_metabolize ==
    /\ TimerCheck
    /\ now - loop_last_update >= TickPeriod
    /\ ~is_help_showing
    /\ loop_last_update' = now
    /\ game_last_update' = now
    /\ stats' = [stats EXCEPT !.play_time = now - stats.session_start]
    /\ pet' = metabolize(pet, now - game_last_update)
    /\ last' = Began("update", host_free)
    /\ pc' = In("update", 1)
    /\ UNCHANGED <<blocks, host_free, monitor_free, last_warning, save_file, now, stepsRest>>

\* update: self.pet.update_mood(delta)
Step_update_mood ==
    /\ pc = In("update", 1)
    /\ pet' = update_mood(pet)
    /\ pc' = In("update", 2)
    /\ UNCHANGED <<blocks, host_free, monitor_free, stats, last_warning, save_file, now,
                   game_last_update, loop_last_update, last, stepsRest>>

\* update: system_monitor.update()?, check_ram_levels()? and the largest size;
\* the handler returns and the pass ends.
Step_update_monitor ==
    /\ pc = In("update", 2)
    /\ HostSampled
    /\ LET w1 == check_ram_levels([World EXCEPT !.monitor_free = host_free'], last.t)
       IN  /\ monitor_free' = host_free'
           /\ last_warning' = w1.last_warning
           /\ stats' = IF pet.size_mb > stats.max_size_reached
                       THEN [stats EXCEPT !.max_size_reached = pet.size_mb]
                       ELSE stats
           /\ last' = [last EXCEPT !.host = host_free', !.added = w1.added]
    /\ Step_TickAwait
    /\ UNCHANGED <<blocks, pet, save_file, game_last_update, loop_last_update, stepsRest>>

\* run_game returns: Q or Esc, the death screen and its key, or the Err of a
\* handler passed on by `?`.  The Game is dropped.
Step_Return ==
    /\ pc.at \in {"top", "return_err"}
    /\ blocks' = drop_manager(blocks)
    /\ call' = Called("drop", 0, NoRefusal, [ok |-> TRUE, err |-> "none"], 0)
    /\ pet' = [alive |-> FALSE]
    /\ monitor_free' = 0
    /\ show_help' = FALSE
    /\ stats' = <<>>
    /\ game_last_update' = 0
    /\ loop_last_update' = 0
    /\ pc' = Pc("done")
    /\ last' = Returned(IF pc.at = "return_err" THEN "err" ELSE "ok")
    /\ UNCHANGED <<min_free_ram, metabolism, system, safe, host_free, last_warning, save_file,
                   saves, now>>

NextSteps ==
    \/ Step_NoEffectInput
    \/ Step_feed_pet_allocate
    \/ Step_feed_pet_eat
    \/ Step_feed_pet_stats
    \/ Step_load_game_assign
    \/ Step_load_game_clear
    \/ Step_load_game_allocate
    \/ Step_emergency_exit
    \/ Step_TimerNotDue
    \/ Step_update_metabolize
    \/ Step_update_mood
    \/ Step_update_monitor
    \/ Step_Return

SpecSteps == InitSteps /\ [][NextSteps]_vars

(***************************************************************************)
(* Claims about the timeline of run_game, checked under SpecSteps.         *)
(***************************************************************************)

\* The handlers SpecSteps takes in steps.
StepOps == {"feed_pet", "load_game", "update", "emergency_exit"}

\* The handler `l` records, run in one piece on the world it began in.
Whole(l) ==
    CASE l.op = "feed_pet"       -> feed_pet(l.begun, 50, l.t, l.host)
      [] l.op = "load_game"      -> load_game(l.begun, l.t, l.host)
      [] l.op = "update"         -> update(l.begun, l.t, l.host)
      [] l.op = "emergency_exit" -> emergency_exit(l.begun, l.t)

\* C28: no two operations on the pet's vitals or the pool are interleaved.  Each
\* tick and each operation a key triggers begins when no other is between two
\* of its statements, every step taken while one is in progress belongs to it,
\* and when it has returned the game is as that operation alone, run in one
\* piece on the state it began in, leaves it.
C28_RunToCompletion ==
    /\ last.op \in StepOps => last.began_at \in {"top", "timer"}
    /\ pc.at = "in" => pc.op = last.op
    /\ (last.op \in StepOps /\ pc.at \in {"top", "timer", "return_err"}) =>
          [World EXCEPT !.result = last.result, !.declined = last.declined,
                        !.found = last.found, !.added = last.added] = Whole(last)

\* A feed has run its three statements and returned while the tick was due the
\* whole time: the update did not run between them.
C28_Witness ==
    /\ pc.at = "timer"
    /\ last.op = "feed_pet"
    /\ last.result = "ok"
    /\ ~last.declined
    /\ last.t - loop_last_update >= TickPeriod
    /\ get_allocated_mb(blocks) = Len(last.begun.blocks) + 50
    /\ pet.size_mb = last.begun.pet.size_mb + 50
    /\ stats.feeding_count = last.begun.stats.feeding_count + 1


(***************************************************************************)
(* src/system/monitor.rs and SystemHealth of src/system/mod.rs.  A reading *)
(* is what the monitor's sysinfo::System holds after a refresh: the three  *)
(* memory counters, in the unit the source divides by 1024 to get MB, and  *)
(* the memory of this process or NoProcess when the process table has no   *)
(* entry for it.  An f32 ratio is kept exact, as numerator and             *)
(* denominator; x / 0.0 is NaN for x = 0 and +infinity for x > 0.          *)
(***************************************************************************)
NoProcess == 0 - 1

\* SystemMonitor::get_total_ram_mb
get_total_ram_mb(sys) == sys.total \div 1024

\* SystemMonitor::get_used_ram_mb
get_used_ram_mb(sys) == sys.used \div 1024

\* SystemMonitor::get_free_ram_mb
get_free_ram_mb(sys) == sys.available \div 1024

\* f32 `ratio > n` and `ratio < n`: both are false for NaN.
RatioAbove(r, n) == (r.den > 0 /\ r.num > n * r.den) \/ (r.den = 0 /\ r.num > 0)

RatioBelow(r, n) == r.den > 0 /\ r.num < n * r.den

\* SystemMonitor::get_ram_usage_percent
get_ram_usage_percent(sys) ==
    IF sys.total > 0 THEN [num |-> sys.used * 100, den |-> sys.total]
                     ELSE [num |-> 0, den |-> 1]

\* SystemMonitor::get_process_ram_mb: Ok on both paths.
get_process_ram_mb(sys) ==
    IF sys.process # NoProcess THEN [ok |-> TRUE, ret |-> sys.process \div 1024]
                               ELSE [ok |-> TRUE, ret |-> 50]

\* is_memory_pressure that counts a usage of exactly 90 % as pressure.
is_memory_pressure_AtLeast90(sys) ==
    get_free_ram_mb(sys) < 500 \/ ~RatioBelow(get_ram_usage_percent(sys), 90)

\* SystemMonitor::is_memory_pressure
is_memory_pressure(sys) ==
    get_free_ram_mb(sys) < 500 \/ RatioAbove(get_ram_usage_percent(sys), 90)

\* SystemHealth::check, on the reading of the monitor it builds.  The division
\* is not guarded: total = 0 gives NaN or +infinity.
SystemHealth_check(sys) ==
    LET total         == get_total_ram_mb(sys)
        free          == get_free_ram_mb(sys)
        used          == get_used_ram_mb(sys)
        process_mb    == get_process_ram_mb(sys)
        usage_percent == [num |-> used * 100, den |-> total]
    IN  [ok |-> process_mb.ok,
         ret |-> [ram_usage_percent |-> usage_percent,
                  free_ram_mb       |-> free,
                  total_ram_mb      |-> total,
                  process_ram_mb    |-> process_mb.ret,
                  is_healthy        |-> free > 512 /\ RatioBelow(usage_percent, 90)]]

(***************************************************************************)
(* SpecMon: a SystemMonitor on its own, as the tests of monitor.rs use it. *)
(* The host changes under it; `system` is what the monitor read at its     *)
(* last refresh, `last` the last call and what it returned.                *)
(***************************************************************************)
\* Counters the host can report: a machine of 10 GB, used memory on both sides
\* of 90 %, available memory on both sides of 500 MB and of 512 MB.
MonTotal     == 10485760
MonUsed      == {0, 9437184, 9437185, 10485760}
MonAvailable == {0, 511999, 512000, 524288, 525312, 4194304}
MonProcess   == {NoProcess, 204800}

\* The reading of a query that failed: the counters are 0.
FailedReading(p) == [total |-> 0, used |-> 0, available |-> 0, process |-> p]

MonReadings ==
    {FailedReading(p) : p \in MonProcess} \cup
    [total : {MonTotal}, used : MonUsed, available : MonAvailable, process : MonProcess]

\* Every variable but system and last: SpecMon has no pool, pet or game.
monRest ==
    <<blocks, min_free_ram, call, host_free, pet, metabolism, safe, monitor_free, show_help,
      stats, last_warning, save_file, saves, now, game_last_update,
      loop_last_update, pc>>

MonCalled(op, ok, ret) == [op |-> op, ok |-> ok, ret |-> ret]

InitMon ==
    /\ system \in MonReadings
    /\ safe = NoSafe
    /\ last = MonCalled("new", TRUE, 0)
    /\ blocks = <<>>
    /\ min_free_ram = 0
    /\ call = NoMemCall
    /\ host_free = 0
    /\ pet = [alive |-> FALSE]
    /\ metabolism = NoMetabolism
    /\ monitor_free = 0
    /\ show_help = FALSE
    /\ stats = <<>>
    /\ last_warning = NoWarning
    /\ save_file = NoSave
    /\ saves = 0
    /\ now = 0
    /\ game_last_update = 0
    /\ loop_last_update = 0
    /\ pc = "monitor"

\* SystemMonitor::update: refresh_memory and refresh_processes; always Ok(()).
Mon_update ==
    /\ system' \in MonReadings
    /\ last' = MonCalled("update", TRUE, 0)
    /\ UNCHANGED monRest

Mon_get_free_ram_mb ==
    /\ last' = MonCalled("get_free_ram_mb", TRUE, get_free_ram_mb(system))
    /\ UNCHANGED <<system, monRest>>

Mon_get_ram_usage_percent ==
    /\ last' = MonCalled("get_ram_usage_percent", TRUE, get_ram_usage_percent(system))
    /\ UNCHANGED <<system, monRest>>

\* get_process_ram_mb refreshes the process table before it looks the process up.
Mon_get_process_ram_mb ==
    \E p \in MonProcess :
        LET sys == [system EXCEPT !.process = p]
            r   == get_process_ram_mb(sys)
        IN  /\ system' = sys
            /\ last' = MonCalled("get_process_ram_mb", r.ok, r.ret)
            /\ UNCHANGED monRest

Mon_is_memory_pressure ==
    /\ last' = MonCalled("is_memory_pressure", TRUE, is_memory_pressure(system))
    /\ UNCHANGED <<system, monRest>>

\* SystemHealth::check builds a monitor of its own (SystemMonitor::new), which
\* `system` then is.
Mon_SystemHealth_check ==
    \E sys \in MonReadings :
        LET r == SystemHealth_check(sys)
        IN  /\ system' = sys
            /\ last' = MonCalled("SystemHealth::check", r.ok, r.ret)
            /\ UNCHANGED monRest

NextMon ==
    \/ Mon_update
    \/ Mon_get_free_ram_mb
    \/ Mon_get_ram_usage_percent
    \/ Mon_get_process_ram_mb
    \/ Mon_is_memory_pressure
    \/ Mon_SystemHealth_check

SpecMon == InitMon /\ [][NextMon]_vars

(***************************************************************************)
(* Claims about the monitor, checked under SpecMon.                        *)
(***************************************************************************)

\* C29: is_memory_pressure is true exactly when free_mb < 500 or used / total is
\* above 0.9, where the ratio counts as 0 when total is 0.  Checked on every
\* reading of MonReadings and on every call SpecMon makes.
C29_PressurePredicate ==
    LET Pressure(sys) ==
            \/ sys.available \div 1024 < 500
            \/ (sys.total # 0 /\ 10 * sys.used > 9 * sys.total)
    IN  /\ \A sys \in MonReadings : is_memory_pressure(sys) <=> Pressure(sys)
        /\ last.op = "is_memory_pressure" => (last.ret <=> Pressure(system))

\* The predicate was asked with exactly 500 MB free and exactly 90 % used, and
\* answered no.
C29_Witness ==
    /\ last.op = "is_memory_pressure"
    /\ get_free_ram_mb(system) = 500
    /\ system.total > 0
    /\ 10 * system.used = 9 * system.total
    /\ last.ret = FALSE

\* C30: when the host's memory query has failed (the counters read 0 and the
\* process has no entry) the monitor's answers are those of a healthy host:
\* is_memory_pressure is false, SystemHealth::check reports is_healthy, and no
\* call returns an error.
C30_FailedQueryIsHealthy ==
    /\ last.ok
    /\ system = FailedReading(NoProcess) =>
          /\ last.op = "is_memory_pressure" => last.ret = FALSE
          /\ last.op = "SystemHealth::check" => last.ret.is_healthy


(***************************************************************************)
(* SafeAllocator of src/system/memory.rs.  Its MemoryManager is the pool   *)
(* `blocks` with `min_free_ram`; `safe` holds its two limits.              *)
(***************************************************************************)

\* SafeAllocator::new
SafeAllocator_new(max_allocation_mb) ==
    [max_allocation_mb    |-> max_allocation_mb,
     warning_threshold_mb |-> (max_allocation_mb * 80) \div 100]

\* allocate_safe without the test against max_allocation_mb.
allocate_safe_NoLimit(bs, min_free, sa, amount_mb, free_ram, refuse_at) ==
    allocate(bs, min_free, amount_mb, free_ram, refuse_at)

\* SafeAllocator::allocate_safe.  The warning it prints changes no state.
allocate_safe(bs, min_free, sa, amount_mb, free_ram, refuse_at) ==
    LET current   == get_allocated_mb(bs)
        new_total == current + amount_mb
    IN  IF new_total > sa.max_allocation_mb
        THEN [ok |-> FALSE, err |-> "ExceedsMaximum", blocks |-> bs]
        ELSE allocate(bs, min_free, amount_mb, free_ram, refuse_at)

(***************************************************************************)
(* SpecSafe: a SafeAllocator on its own, as test_safe_allocator uses it.   *)
(* allocate_safe is called with any amount while the host's free RAM       *)
(* changes; manager() hands out the MemoryManager, whose allocate and      *)
(* release can then be called past the allocator.  `last.only_safe` says   *)
(* whether every call so far was an allocate_safe.                         *)
(***************************************************************************)
SafeMaxChoices == {1, 2}      \* max_allocation_mb of SafeAllocator::new in SpecSafe

InitSafe ==
    /\ blocks = <<>>
    /\ min_free_ram \in MinFreeChoices
    /\ host_free \in 0..MaxFreeMb
    /\ \E m \in SafeMaxChoices : safe = SafeAllocator_new(m)
    /\ call = [op |-> "new", amount |-> 0, refuse_at |-> NoRefusal, free |-> 0,
               ok |-> TRUE, err |-> "none", ret |-> 0, before |-> <<>>, prev |-> NoCall]
    /\ last = [only_safe |-> TRUE]
    /\ pet = [alive |-> FALSE]
    /\ metabolism = NoMetabolism
    /\ system = NoSystem
    /\ monitor_free = 0
    /\ show_help = FALSE
    /\ stats = <<>>
    /\ last_warning = NoWarning
    /\ save_file = NoSave
    /\ saves = 0
    /\ now = 0
    /\ game_last_update = 0
    /\ loop_last_update = 0
    /\ pc = "safe"

\* The variables no call on a SafeAllocator changes.
safeRest ==
    <<min_free_ram, pet, metabolism, system, safe, monitor_free, show_help, stats,
      last_warning, save_file, saves, now, game_last_update, loop_last_update, pc>>

Safe_allocate_safe ==
    \E n \in 0..(MaxAllocMb + 1) :
      \E r \in {NoRefusal} \cup 0..(n - 1) :
        /\ LET res == allocate_safe(blocks, min_free_ram, safe, n, SystemMonitor_new_free, r)
           IN  /\ blocks' = res.blocks
               /\ call' = Called("allocate_safe", n, r, res, 0)
        /\ UNCHANGED <<host_free, last, safeRest>>

\* allocator.manager().allocate(n)
Safe_manager_allocate ==
    \E n \in 1..MaxAllocMb :
        /\ Len(blocks) + n <= MaxPoolMb
        /\ LET res == allocate(blocks, min_free_ram, n, SystemMonitor_new_free, NoRefusal)
           IN  /\ blocks' = res.blocks
               /\ call' = Called("allocate", n, NoRefusal, res, 0)
        /\ last' = [only_safe |-> FALSE]
        /\ UNCHANGED <<host_free, safeRest>>

\* allocator.manager().release(n)
Safe_manager_release ==
    \E n \in 1..MaxAllocMb :
        /\ LET res == release(blocks, n)
           IN  /\ blocks' = res.blocks
               /\ call' = Called("release", n, NoRefusal, [ok |-> res.ok, err |-> "none"], 0)
        /\ last' = [only_safe |-> FALSE]
        /\ UNCHANGED <<host_free, safeRest>>

\* Other processes take or give back memory.
Safe_HostChanges ==
    /\ host_free' \in 0..MaxFreeMb
    /\ host_free' # host_free
    /\ UNCHANGED <<blocks, call, last, safeRest>>

NextSafe ==
    \/ Safe_allocate_safe
    \/ Safe_manager_allocate
    \/ Safe_manager_release
    \/ Safe_HostChanges

SpecSafe == InitSafe /\ [][NextSafe]_vars

\* C31: allocate_safe(amount_mb) returns an error and leaves the pool as it was
\* whenever allocated + amount_mb > max_allocation_mb; so while every call made
\* on the SafeAllocator has been an allocate_safe, the allocated amount is at
\* most max_allocation_mb.
C31_SafeAllocatorLimit ==
    /\ (/\ call.op = "allocate_safe"
        /\ Len(call.before) + call.amount > safe.max_allocation_mb) =>
            /\ ~call.ok
            /\ blocks = call.before
    /\ last.only_safe => get_allocated_mb(blocks) <= safe.max_allocation_mb

\* With the pool at its maximum after allocate_safe calls alone, and free RAM
\* enough for one more block, allocate_safe(1) was refused.
C31_Witness ==
    /\ last.only_safe
    /\ call.op = "allocate_safe"
    /\ call.amount = 1
    /\ Len(call.before) = safe.max_allocation_mb
    /\ call.free >= call.amount + min_free_ram
    /\ ~call.ok
    /\ get_allocated_mb(blocks) = safe.max_allocation_mb

=============================================================================
